---- MODULE Spec2Model ----
(***************************************************************************)
(* Model of the real-time fan-out pipeline of VisibleEphemeris:            *)
(*   src/Visible_Ephemeris.py  (3.0.0-phase1, "Phase 1")                   *)
(*   src/Visible_Epheremis.py  (v2.5.7)                                    *)
(*                                                                         *)
(* Three specifications share the variables and the actions:               *)
(*   SpecTick   the Phase 1 tick loop run without --udp, without --web and *)
(*              with nothing on standard input: the per-object             *)
(*              computation, the predicate, the ranking, the truncation.   *)
(*   SpecLoop   the Phase 1 tick loop with its three sinks, the quit       *)
(*              directive and KeyboardInterrupt; the visibility            *)
(*              computation is reduced to its result.                      *)
(*   SpecQueue  the producer's broadcast step of both scripts against the  *)
(*              consumers of start_web_server, with the real capacity.     *)
(*                                                                         *)
(* Elevations, azimuths and ranges are floats in the code; the model draws *)
(* them from small sets of integers that keep their order and their ties.  *)
(***************************************************************************)
EXTENDS Integers, Sequences, FiniteSets, TLC

\* ------------------------------------------------------------- bounds
\* Largest catalog (len(satellites)) of SpecTick.
MaxSats == 2
\* lines sent to standard input
MaxLines == 3
\* Ticks after which SpecTick and SpecLoop start no new iteration.
MaxTick == 2
\* SpecQueue: ticks run beyond those that fill the queue to the point where
\* the script's overflow policy acts.
QueueSlack == 2
\* Streaming clients (running gen() generators) of SpecQueue.
NumConsumers == 1

\* --------------------------------------------------- program constants
FULL_CIRCLE_DEG == 360
\* queue.Queue(maxsize=128)
QueueMaxSize == 128
\* while sse_queue.qsize() > 100
EvictAbove == 100
\* alts[i] = -90.0 in the handler of a failed query
SentinelAlt == -90
\* -TWILIGHT_DEGS["astronomical"], the default of --twilight
AstronomicalThresh == -18

\* ------------------------------------------------------- input domains
\* alt.degrees as the ephemeris collaborator returns it (range [-90, 90]).
ElValues == {-90, 0, 45}
\* az.degrees as returned, before normalisation: a float, held as whole
\* degrees plus a part (tiny, in units far below the spacing of floats near
\* 360.0) that only a value next to zero can carry.
AzRawValues ==
  {[deg |-> -10, tiny |-> 0], [deg |-> 370, tiny |-> 0],
   [deg |-> 0, tiny |-> -1]}
\* dist.km
RangeValues == {500}
\* (alt, az, dist) as one altaz() query returns them
AltazResults ==
  {[el |-> -90, az |-> [deg |-> -10, tiny |-> 0], km |-> 500],
   [el |-> 0, az |-> [deg |-> 370, tiny |-> 0], km |-> 500],
   [el |-> 45, az |-> [deg |-> 0, tiny |-> -1], km |-> 500]}
\* --min-el
MinElValues == {-90, 10}
\* --maxsat
MaxsatValues == {-1, 0, 1, 2}
\* --udp-snapshot-max
UdpMaxValues == {-1, 0, 1, 2}
\* the Sun's altitude at a tick
SunAltValues == {-18, -17}
\* what np.empty leaves in an entry before the first tick writes it
UninitEl == {-90, 45}
UninitAz == {999}
UninitRange == {7}
UninitSunlit == {TRUE}

VARIABLES
  script,        \* "phase1" | "v257": which script is running
  cfg,           \* parsed arguments the loop reads
  n,             \* len(satellites)
  pc,            \* position of the main thread
  tick,          \* iterations started; stands for now = utcnow()
  i,             \* index of the for loop over satellites
  sun_alt, is_night,
  alts, azs, rngs, sunlit,   \* the pre-allocated result arrays
  failed,        \* history: objects whose altaz query raised in this tick
  ranked,        \* history: idx after the argsort, before idx[:maxsat]
  observations,  \* the rows of this tick's frame
  termOut,       \* what the terminal shows for this tick
  snapshot,      \* the snapshot dict of this tick
  stdin,         \* lines waiting on standard input
  udpOut,        \* datagram sent in this tick
  udpTries,      \* sendto calls of this tick
  udpErr,        \* sendto raised in this tick
  q,             \* sse_queue
  sseSteps,      \* history: steps of the current broadcast step
  enq,           \* history: this tick's frame was put on sse_queue
  stopCause,     \* history: "none" | "quit" | "interrupt"
  got,           \* history: per consumer, epoch of the last message it received
  args,          \* parsed arguments that only the startup reads
  tle_path,      \* the resolved path of the catalog file
  tle,           \* the file at tle_path: exists, age in seconds, content
  net,           \* history: the catalog fetch (attempts, writes, error)
  satellites,    \* the catalog
  prev,          \* history: the catalog before the latest filter stage
  exit_code,     \* status of sys.exit(); 0 while the process has not exited
  sock,          \* the datagram socket: its state, and how often one was made
  heap,          \* the dicts and lists of the snapshots, by identity
  clock,         \* time.perf_counter() and what the loop derived from it
  stdin_buf,     \* lines sys.stdin has read ahead and not yet returned
  queried,       \* history: how the queries of this tick's objects ended
  built          \* history: how the latest snapshot build ended

\* The variables of the startup, which the tick loop leaves alone.
startup == <<args, tle_path, tle, net, satellites, prev, exit_code>>

\* The variables that single specifications follow in detail.
extras == <<sock, heap, clock, stdin_buf, queried, built, built>>

vars == <<script, cfg, n, pc, tick, i, sun_alt, is_night, alts, azs, rngs,
          sunlit, failed, ranked, observations, termOut, snapshot, stdin,
          udpOut, udpTries, udpErr, q, sseSteps, enq, stopCause, got,
          startup, extras>>

\* ------------------------------------------------------------ helpers
Max(a, b) == IF a >= b THEN a ELSE b
Min(a, b) == IF a <= b THEN a ELSE b

\* Mutant of Slice: the cut keeps one item too many.
SliceOffByOne(s, k) == SubSeq(s, 1, Min(Max(k, 0) + 1, Len(s)))

\* Mutant of Slice: the cut keeps the last k items instead of the first.
SliceTail(s, k) == SubSeq(s, Len(s) - Min(Max(k, 0), Len(s)) + 1, Len(s))

\* Python's s[:k]: the first k items, or all but the last -k when k < 0.
Slice(s, k) ==
  IF k >= 0 THEN SubSeq(s, 1, Min(k, Len(s)))
  ELSE SubSeq(s, 1, Max(0, Len(s) + k))

\* All orderings of the finite set S, as sequences.
Orderings(S) ==
  {p \in [1..Cardinality(S) -> S] :
     \A a, b \in 1..Cardinality(S) : a # b => p[a] # p[b]}

NoSnapshot ==
  [type |-> "none", epoch_utc |-> 0, sun_alt |-> 0, is_night |-> FALSE,
   rows |-> <<>>]
NoFrame == [epoch |-> 0, rows |-> <<>>, line |-> "blank"]
Heartbeat ==
  [type |-> "heartbeat", epoch_utc |-> 0, sun_alt |-> 0, is_night |-> FALSE,
   rows |-> <<>>]

\* maxsat = max(1, int(args.maxsat))
maxsat == Max(1, cfg.maxsat)
min_el == cfg.min_el

\* x % m on floats (m > 0): r = fmod(x, m) has the sign of x; when r is not
\* zero and negative, the result is r + m rounded to the nearest float, which
\* is m itself when r is a tiny negative number.
FloatMod(x, m) ==
  LET r == IF x.deg >= 0 THEN x.deg % m ELSE -((-x.deg) % m)
  IN IF r < 0 \/ (r = 0 /\ x.tiny < 0) THEN r + m ELSE r

\* ----------------------------------------------- visibility computation
\* Mutant of Mask: the elevation test is strict, alts > min_el.
MaskStrict(k) ==
  /\ alts[k] > min_el
  /\ (cfg.visible_only => (sunlit[k] /\ is_night))

\* mask = alts >= min_el; if args.visible_only: mask &= sunlit & is_night
Mask(k) ==
  /\ alts[k] >= min_el
  /\ (cfg.visible_only => (sunlit[k] /\ is_night))

\* Mutant of ArgsortDesc: the negation is lost, np.argsort(a[idx]).
ArgsortAsc(a, idx) ==
  {p \in Orderings(idx) : \A k \in 1..(Len(p) - 1) : a[p[k]] <= a[p[k + 1]]}

\* np.argsort(-a[idx]) with the default kind ("quicksort", not stable):
\* every ordering of idx by non-increasing a is a possible result.
ArgsortDesc(a, idx) ==
  {p \in Orderings(idx) : \A k \in 1..(Len(p) - 1) : a[p[k]] >= a[p[k + 1]]}

\* SatelliteObservation(...) and the row built from it
Row(k) ==
  [sat |-> k, az |-> azs[k], el |-> alts[k], range_km |-> rngs[k],
   sunlit |-> sunlit[k]]

Rows(idx) == [k \in 1..Len(idx) |-> Row(idx[k])]

\* loop_start, t = ts.now(), now = utcnow(), the Sun's altitude, is_night
StartTick(limit) ==
  /\ pc = "top"
  /\ tick < limit
  /\ tick' = tick + 1
  /\ \E s \in SunAltValues :
       /\ sun_alt' = s
       /\ is_night' = (s <= cfg.sun_alt_thresh)
  /\ i' = 1
  /\ failed' = {}
  /\ ranked' = <<>>
  /\ observations' = <<>>
  /\ termOut' = NoFrame
  /\ snapshot' = NoSnapshot
  /\ udpOut' = NoSnapshot
  /\ udpTries' = 0
  /\ udpErr' = FALSE
  /\ enq' = FALSE
  /\ sseSteps' = 0
  /\ queried' = <<>>
  /\ pc' = "compute"
  /\ UNCHANGED <<startup, sock, heap, clock, stdin_buf, built,
                 script, cfg, n, alts, azs, rngs, sunlit, stdin, q,
                 stopCause, got>>

TickStart == StartTick(MaxTick)

AfterObject == IF i = n THEN "filter" ELSE "compute"

\* What queried keeps for an altaz query that returned nothing.
NoResult == [el |-> 0, az |-> [deg |-> 0, tiny |-> 0], km |-> 0]

\* Mutant of ComputeObjectOk: an object whose sunlit query raises counts as
\* not sunlit.
ComputeObjectOkDarkOnError ==
  /\ pc = "compute"
  /\ \E r \in AltazResults, sl \in {"true", "false", "raises"} :
       /\ r.el \in ElValues /\ r.az \in AzRawValues /\ r.km \in RangeValues
       /\ alts' = [alts EXCEPT ![i] = r.el]
       /\ azs' = [azs EXCEPT ![i] = FloatMod(r.az, FULL_CIRCLE_DEG)]
       /\ rngs' = [rngs EXCEPT ![i] = r.km]
       /\ sunlit' = [sunlit EXCEPT ![i] = (sl = "true")]
       /\ queried' = Append(queried, [altaz |-> "ok", r |-> r, lit |-> sl])
  /\ i' = i + 1
  /\ pc' = IF i = n THEN "filter" ELSE "compute"
  /\ UNCHANGED <<startup, sock, heap, clock, stdin_buf, built,
                 script, cfg, n, tick, sun_alt, is_night, failed, ranked,
                 observations, termOut, snapshot, stdin, udpOut, udpTries,
                 udpErr, q, sseSteps, enq, stopCause, got>>

\* One iteration of the for loop whose altaz query succeeds; the sunlit
\* query returns a flag or raises, and then the object counts as sunlit.
ComputeObjectOk ==
  /\ pc = "compute"
  /\ \E r \in AltazResults, sl \in {"true", "false", "raises"} :
       /\ r.el \in ElValues /\ r.az \in AzRawValues /\ r.km \in RangeValues
       /\ alts' = [alts EXCEPT ![i] = r.el]
       /\ azs' = [azs EXCEPT ![i] = FloatMod(r.az, FULL_CIRCLE_DEG)]
       /\ rngs' = [rngs EXCEPT ![i] = r.km]
       /\ sunlit' = [sunlit EXCEPT ![i] = (sl # "false")]
       /\ queried' = Append(queried, [altaz |-> "ok", r |-> r, lit |-> sl])
  /\ i' = i + 1
  /\ pc' = AfterObject
  /\ UNCHANGED <<startup, sock, heap, clock, stdin_buf, built,
                 script, cfg, n, tick, sun_alt, is_night, failed, ranked,
                 observations, termOut, snapshot, stdin, udpOut, udpTries,
                 udpErr, q, sseSteps, enq, stopCause, got>>

\* The handler of a failed altaz query: where the loop goes next.
AfterFailedObject == AfterObject

\* Mutant of ComputeObjectFails: the handler writes the elevation and the
\* sunlit flag only.
ComputeObjectFailsKeepsAzRange ==
  /\ pc = "compute"
  /\ alts' = [alts EXCEPT ![i] = SentinelAlt]
  /\ sunlit' = [sunlit EXCEPT ![i] = FALSE]
  /\ failed' = failed \cup {i}
  /\ queried' =
       Append(queried, [altaz |-> "raises", r |-> NoResult, lit |-> "none"])
  /\ i' = i + 1
  /\ pc' = IF i = n THEN "filter" ELSE "compute"
  /\ UNCHANGED <<startup, sock, heap, clock, stdin_buf, built,
                 script, cfg, n, tick, sun_alt, is_night, azs, rngs, ranked,
                 observations, termOut, snapshot, stdin, udpOut, udpTries,
                 udpErr, q, sseSteps, enq, stopCause, got>>

\* One iteration of the for loop whose altaz query raises.
ComputeObjectFails ==
  /\ pc = "compute"
  /\ alts' = [alts EXCEPT ![i] = SentinelAlt]
  /\ azs' = [azs EXCEPT ![i] = 0]
  /\ rngs' = [rngs EXCEPT ![i] = 0]
  /\ sunlit' = [sunlit EXCEPT ![i] = FALSE]
  /\ failed' = failed \cup {i}
  /\ queried' =
       Append(queried, [altaz |-> "raises", r |-> NoResult, lit |-> "none"])
  /\ i' = i + 1
  /\ pc' = AfterFailedObject
  /\ UNCHANGED <<startup, sock, heap, clock, stdin_buf, built,
                 script, cfg, n, tick, sun_alt, is_night, ranked,
                 observations, termOut, snapshot, stdin, udpOut, udpTries,
                 udpErr, q, sseSteps, enq, stopCause, got>>

\* idx = np.where(mask)[0]; idx = idx[np.argsort(-alts[idx])];
\* idx = idx[:maxsat]; observations = [SatelliteObservation(...) ...]
RankAndBuild ==
  /\ pc = "filter"
  /\ \E p \in ArgsortDesc(alts, {k \in 1..n : Mask(k)}) :
       /\ ranked' = p
       /\ observations' = Rows(Slice(p, maxsat))
  /\ pc' = "terminal"
  /\ UNCHANGED <<startup, extras,
                 script, cfg, n, tick, i, sun_alt, is_night, alts, azs, rngs,
                 sunlit, failed, termOut, snapshot, stdin, udpOut, udpTries,
                 udpErr, q, sseSteps, enq, stopCause, got>>

\* Mutant of TerminalRender: a tick with no observation is skipped (continue).
TerminalRenderSkipsEmpty ==
  /\ pc = "terminal"
  /\ IF observations = <<>>
       THEN termOut' = termOut /\ pc' = "top"
       ELSE /\ termOut' = [epoch |-> tick, rows |-> observations,
                           line |-> "rows"]
            /\ pc' = "snapshot"
  /\ UNCHANGED <<startup, extras,
                 script, cfg, n, tick, i, sun_alt, is_night, alts, azs, rngs,
                 sunlit, failed, ranked, observations, snapshot, stdin,
                 udpOut, udpTries, udpErr, q, sseSteps, enq, stopCause, got>>

\* The terminal output: a line per observation, or the "no satellites" line.
TerminalRender ==
  /\ pc = "terminal"
  /\ termOut' = [epoch |-> tick, rows |-> observations,
                 line |-> IF observations # <<>> THEN "rows"
                          ELSE "no satellites"]
  /\ pc' = "snapshot"
  /\ UNCHANGED <<startup, extras,
                 script, cfg, n, tick, i, sun_alt, is_night, alts, azs, rngs,
                 sunlit, failed, ranked, observations, snapshot, stdin,
                 udpOut, udpTries, udpErr, q, sseSteps, enq, stopCause, got>>

\* The snapshot dict with the first m rows appended.
SnapshotWith(m) ==
  [type |-> "snapshot", epoch_utc |-> tick, sun_alt |-> sun_alt,
   is_night |-> is_night, rows |-> SubSeq(observations, 1, m)]

\* Mutant of BuildSnapshotFails: the handler logs the error and the tick
\* goes on.
BuildSnapshotFailsGoesOn ==
  /\ pc = "snapshot"
  /\ \E m \in 0..Len(observations) : snapshot' = SnapshotWith(m)
  /\ built' = "failed"
  /\ pc' = "quit"
  /\ UNCHANGED <<startup, sock, heap, clock, stdin_buf, queried,
                 script, cfg, n, tick, i, sun_alt, is_night, alts, azs, rngs,
                 sunlit, failed, ranked, observations, termOut, stdin,
                 udpOut, udpTries, udpErr, q, sseSteps, enq, stopCause, got>>

\* Something in the try of the snapshot raises: a conversion while a row
\* is built, or json.dumps(snapshot). snapshot is the dict as far as it
\* got; except Exception: log and continue.
BuildSnapshotFails ==
  /\ pc = "snapshot"
  /\ \E m \in 0..Len(observations) : snapshot' = SnapshotWith(m)
  /\ built' = "failed"
  /\ pc' = "top"
  /\ UNCHANGED <<startup, sock, heap, clock, stdin_buf, queried,
                 script, cfg, n, tick, i, sun_alt, is_night, alts, azs, rngs,
                 sunlit, failed, ranked, observations, termOut, stdin,
                 udpOut, udpTries, udpErr, q, sseSteps, enq, stopCause, got>>

\* snapshot = {"type": "snapshot", "epoch_utc": ..., "rows": [...]}
BuildSnapshot ==
  /\ pc = "snapshot"
  /\ snapshot' = SnapshotWith(Len(observations))
  /\ built' = "ok"
  /\ pc' = "quit"
  /\ UNCHANGED <<startup, sock, heap, clock, stdin_buf, queried,
                 script, cfg, n, tick, i, sun_alt, is_night, alts, azs, rngs,
                 sunlit, failed, ranked, observations, termOut, stdin,
                 udpOut, udpTries, udpErr, q, sseSteps, enq, stopCause, got>>

\* The end of standard input as the descriptor shows it: always readable,
\* and a read() returns no byte.
EndOfFile == <<"<eof>">>

\* sys.stdin in rlist: select() looks at the descriptor, not at what
\* sys.stdin has read ahead.
Readable == stdin # <<>>

\* The lines that wait on the descriptor, before its end if it has one.
Waiting ==
  IF stdin # <<>> /\ stdin[Len(stdin)] = EndOfFile
    THEN SubSeq(stdin, 1, Len(stdin) - 1)
    ELSE stdin

\* How many lines one read() on the descriptor returns when some wait
\* there: one from a terminal in line mode, all of them from a pipe.
ReadSizes == {1, Len(Waiting)}

\* sys.stdin.readline(): the next line sys.stdin has read ahead, else what
\* one read() returns, of which it keeps all after the first line; "" at
\* the end of the input. line is what it returns, buf and rest are what
\* it leaves in sys.stdin and on the descriptor.
Readline ==
  IF stdin_buf # <<>>
    THEN {[line |-> Head(stdin_buf), buf |-> Tail(stdin_buf), rest |-> stdin]}
    ELSE IF Waiting = <<>>
      THEN {[line |-> <<>>, buf |-> <<>>, rest |-> stdin]}
      ELSE {[line |-> Head(stdin), buf |-> SubSeq(stdin, 2, m),
             rest |-> SubSeq(stdin, m + 1, Len(stdin))] : m \in ReadSizes}

\* select() finds nothing to read on standard input.
QuitCheckNoInput ==
  /\ pc = "quit"
  /\ ~Readable
  /\ pc' = "udp"
  /\ UNCHANGED <<startup, extras,
                 script, cfg, n, tick, i, sun_alt, is_night, alts, azs, rngs,
                 sunlit, failed, ranked, observations, termOut, snapshot,
                 stdin, udpOut, udpTries, udpErr, q, sseSteps, enq,
                 stopCause, got>>

\* udp_sock is None or --udp-snapshot is off: no datagram.
UdpSkip ==
  /\ pc = "udp"
  /\ ~cfg.udp
  /\ pc' = "sse"
  /\ UNCHANGED <<startup, extras,
                 script, cfg, n, tick, i, sun_alt, is_night, alts, azs, rngs,
                 sunlit, failed, ranked, observations, termOut, snapshot,
                 stdin, udpOut, udpTries, udpErr, q, sseSteps, enq,
                 stopCause, got>>

\* sse_queue is None: no broadcast.
SseSkip ==
  /\ pc = "sse"
  /\ ~cfg.web
  /\ pc' = "sleep"
  /\ UNCHANGED <<startup, extras,
                 script, cfg, n, tick, i, sun_alt, is_night, alts, azs, rngs,
                 sunlit, failed, ranked, observations, termOut, snapshot,
                 stdin, udpOut, udpTries, udpErr, q, sseSteps, enq,
                 stopCause, got>>

\* Mutant of Sleep: the catalog is read again from the file before the next
\* tick.
SleepReloadsCatalog ==
  /\ pc = "sleep"
  /\ pc' = "top"
  /\ satellites' = tle.content
  /\ UNCHANGED <<args, tle_path, tle, net, prev, exit_code, extras,
                 script, cfg, n, tick, i, sun_alt, is_night, alts, azs, rngs,
                 sunlit, failed, ranked, observations, termOut, snapshot,
                 stdin, udpOut, udpTries, udpErr, q, sseSteps, enq,
                 stopCause, got>>

\* delay = interval - elapsed; time.sleep(delay) when positive
Sleep ==
  /\ pc = "sleep"
  /\ pc' = "top"
  /\ UNCHANGED <<startup, extras,
                 script, cfg, n, tick, i, sun_alt, is_night, alts, azs, rngs,
                 sunlit, failed, ranked, observations, termOut, snapshot,
                 stdin, udpOut, udpTries, udpErr, q, sseSteps, enq,
                 stopCause, got>>

\* ------------------------------------------------------------ strings
\* A str is a sequence of one-character strings.
\* str.strip(): leading and trailing blanks removed
RECURSIVE LStrip(_)
LStrip(s) == IF s # <<>> /\ Head(s) = " " THEN LStrip(Tail(s)) ELSE s
RECURSIVE RStrip(_)
RStrip(s) ==
  IF s # <<>> /\ s[Len(s)] = " " THEN RStrip(SubSeq(s, 1, Len(s) - 1)) ELSE s
Strip(s) == RStrip(LStrip(s))

UpperLetters ==
  <<"A", "B", "C", "D", "E", "F", "G", "H", "I", "J", "K", "L", "M", "N",
    "O", "P", "Q", "R", "S", "T", "U", "V", "W", "X", "Y", "Z">>
LowerLetters ==
  <<"a", "b", "c", "d", "e", "f", "g", "h", "i", "j", "k", "l", "m", "n",
    "o", "p", "q", "r", "s", "t", "u", "v", "w", "x", "y", "z">>
LowerChar(c) ==
  IF \E k \in 1..Len(UpperLetters) : UpperLetters[k] = c
    THEN LowerLetters[CHOOSE k \in 1..Len(UpperLetters) : UpperLetters[k] = c]
    ELSE c
\* str.lower()
Lower(s) == [k \in 1..Len(s) |-> LowerChar(s[k])]

\* pat in s
IsSubstring(pat, s) ==
  \E off \in 0..(Len(s) - Len(pat)) : SubSeq(s, off + 1, off + Len(pat)) = pat

\* str.split(sep) for a one-character sep: the pieces between separators
RECURSIVE Split(_, _)
Split(s, sep) ==
  IF \E k \in 1..Len(s) : s[k] = sep
    THEN LET k == CHOOSE j \in 1..Len(s) :
                    s[j] = sep /\ \A m \in 1..(j - 1) : s[m] # sep
         IN <<SubSeq(s, 1, k - 1)>> \o Split(SubSeq(s, k + 1, Len(s)), sep)
    ELSE <<s>>

\* None of an Optional[str] or Optional[List[str]]; the code tests these
\* values for truth only, and the empty string or list is never built.
None == <<>>

\* compile_mask_list: [e.strip() for e in exprs.split(",") if e.strip()]
\* or None
compile_mask_list(exprs) ==
  IF exprs = None THEN None
  ELSE LET pieces == Split(exprs, ",")
           stripped == [k \in 1..Len(pieces) |-> Strip(pieces[k])]
           parts == SelectSeq(stripped, LAMBDA e : e # <<>>)
       IN IF parts = <<>> THEN None ELSE parts

\* Mutant of name_matches: the include list is consulted before the
\* exclude list.
name_matchesIncludeFirst(name, include, exclude) ==
  LET lname == Lower(name)
  IN IF include # None /\
        \E k \in 1..Len(include) : IsSubstring(Lower(include[k]), lname)
       THEN TRUE
       ELSE IF exclude # None /\
               \E k \in 1..Len(exclude) :
                 IsSubstring(Lower(exclude[k]), lname)
              THEN FALSE
              ELSE include = None

\* name_matches: the first exclude pattern found in the lower-cased name
\* returns False; then, with an include list, the first include pattern
\* found returns True and none found returns False; else True.
name_matches(name, include, exclude) ==
  LET lname == Lower(name)
  IN IF exclude # None /\
        \E k \in 1..Len(exclude) : IsSubstring(Lower(exclude[k]), lname)
       THEN FALSE
       ELSE IF include # None
              THEN \E k \in 1..Len(include) :
                     IsSubstring(Lower(include[k]), lname)
              ELSE TRUE

\* ------------------------------------------------------------ host:port
\* An Optional[str] argument: <<>> is None, <<text>> is the string text.
Some(text) == <<text>>
\* if value: of an Optional[str], false for None and for ""
Truthy(opt) == opt # None /\ opt[1] # <<>>

Digits == <<"0", "1", "2", "3", "4", "5", "6", "7", "8", "9">>
IsDigit(c) == \E k \in 1..Len(Digits) : Digits[k] = c
DigitValue(c) == (CHOOSE k \in 1..Len(Digits) : Digits[k] = c) - 1
RECURSIVE DigitsValue(_)
DigitsValue(t) ==
  IF t = <<>> THEN 0
  ELSE 10 * DigitsValue(SubSeq(t, 1, Len(t) - 1)) + DigitValue(t[Len(t)])

\* int(text): blanks around are dropped, one sign is allowed, the rest must
\* be decimal digits (digit grouping with "_" is left out); <<>> stands for
\* the ValueError, <<v>> for the value v.
IntOf(text) ==
  LET t == Strip(text)
      signed == t # <<>> /\ Head(t) \in {"+", "-"}
      body == IF signed THEN Tail(t) ELSE t
  IN IF body = <<>> \/ \E k \in 1..Len(body) : ~IsDigit(body[k])
       THEN <<>>
       ELSE <<(IF signed /\ Head(t) = "-" THEN -1 ELSE 1) * DigitsValue(body)>>

\* parse_hostport: [ok |-> FALSE] stands for the ValueError it raises when
\* there are not two parts, the port is no integer or is outside 1..65535.
parse_hostport(hostport_str) ==
  LET parts == Split(hostport_str, ":")
  IN IF Len(parts) # 2 THEN [ok |-> FALSE]
     ELSE LET port == IntOf(parts[2])
          IN IF port = <<>> \/ ~(1 <= port[1] /\ port[1] <= 65535)
               THEN [ok |-> FALSE]
               ELSE [ok |-> TRUE, host |-> parts[1], port |-> port[1]]

\* Values of --udp and --web
HostPortGood ==
  <<"h", ":", "8", "0", "8", "0">>
HostPortMaxPort ==
  <<"h", ":", "6", "5", "5", "3", "5">>
HostPortNoColon ==
  <<"l", "o", "c", "a", "l", "h", "o", "s", "t">>
HostPortTwoColons ==
  <<"a", ":", "b", ":", "8", "0">>
HostPortNamedPort ==
  <<"h", ":", "h", "t", "t", "p">>
HostPortZero ==
  <<"h", ":", "0">>
HostPortTooHigh ==
  <<"h", ":", "6", "5", "5", "3", "6">>
HostPortNegative ==
  <<"h", ":", "-", "1">>
HostPortEmpty ==
  <<>>
HostPortTexts ==
  {HostPortGood, HostPortMaxPort, HostPortNoColon, HostPortTwoColons,
   HostPortNamedPort, HostPortZero, HostPortTooHigh, HostPortNegative,
   HostPortEmpty}
HostPortChoices == {None} \cup {Some(t) : t \in HostPortTexts}

\* ---------------------------------------------------------------- paths
\* A pathlib.Path of a POSIX system: whether it has the root, and its
\* components.
PurePath(isRooted, components) == [root |-> isRooted, parts |-> components]

\* Path(text): the pieces between "/" that are neither empty nor ".";
\* rooted when the text starts with "/".
Path(text) ==
  PurePath(text # <<>> /\ Head(text) = "/",
           SelectSeq(Split(text, "/"),
                     LAMBDA piece : piece # <<>> /\ piece # <<".">>))

\* a / b: an absolute b replaces a, else the components of b follow a's.
PathJoin(a, b) == IF b.root THEN b ELSE PurePath(a.root, a.parts \o b.parts)

\* path.name: the last component, or "" when there is none.
PathName(p) == IF p.parts = <<>> THEN <<>> ELSE p.parts[Len(p.parts)]

\* path.is_absolute()
is_absolute(p) == p.root

\* path.parent: the path without its last component.
PathParent(p) ==
  IF p.parts = <<>> THEN p
  ELSE PurePath(p.root, SubSeq(p.parts, 1, Len(p.parts) - 1))

\* CACHE_DIR = Path("_skyfield_cache")
CacheDirName ==
  <<"_", "s", "k", "y", "f", "i", "e", "l", "d", "_", "c", "a", "c", "h",
    "e">>
CACHE_DIR == Path(CacheDirName)

\* Values of --tle-file
TleFileBare == \* the default of Phase 1
  <<"a", "c", "t", "i", "v", "e", ".", "t", "l", "e">>
TleFileInCache == \* str(DEFAULT_TLE_FILE), the default of v2.5.7
  <<"_", "s", "k", "y", "f", "i", "e", "l", "d", "_", "c", "a", "c", "h",
    "e", "/", "a", "c", "t", "i", "v", "e", ".", "t", "l", "e">>
TleFileInSubdir ==
  <<"s", "u", "b", "/", ".", "/", "i", "s", "s", ".", "t", "l", "e">>
TleFileAbsolute ==
  <<"/", "d", "a", "t", "a", "/", "i", "s", "s", ".", "t", "l", "e">>
TleFileAbsoluteInCache ==
  <<"/", "_", "s", "k", "y", "f", "i", "e", "l", "d", "_", "c", "a", "c",
    "h", "e", "/", "i", "s", "s", ".", "t", "l", "e">>
TleFileCacheItself ==
  <<"_", "s", "k", "y", "f", "i", "e", "l", "d", "_", "c", "a", "c", "h",
    "e", "/">>
TleFileChoices ==
  {TleFileBare, TleFileInCache, TleFileInSubdir, TleFileAbsolute,
   TleFileAbsoluteInCache, TleFileCacheItself}

\* Mutant of ResolveTlePathV2: the directories of a relative --tle-file are
\* kept.
ResolveTlePathV2KeepsDirs(tle_file) ==
  LET user_tle == Path(tle_file)
  IN IF is_absolute(user_tle) THEN user_tle
     ELSE PathJoin(CACHE_DIR, user_tle)

\* v2.5.7: an absolute --tle-file as it is, else CACHE_DIR / user_tle.name
ResolveTlePathV2(tle_file) ==
  LET user_tle == Path(tle_file)
  IN IF is_absolute(user_tle) THEN user_tle
     ELSE PathJoin(CACHE_DIR, Path(PathName(user_tle)))

\* Phase 1: tle_path = CACHE_DIR / args.tle_file
ResolveTlePath(tle_file) == PathJoin(CACHE_DIR, Path(tle_file))

\* ------------------------------------------------------ startup: data
\* Catalog names (EarthSatellite.name)
NameGps ==
  <<"N", "A", "V", "S", "T", "A", "R", " ", "G", "P", "S", "-", "B", "I",
    "I", "R", "-", "2">>
NameIss == <<"I", "S", "S", " ", "(", "Z", "A", "R", "Y", "A", ")">>
NameStarlink == <<"S", "T", "A", "R", "L", "I", "N", "K", "-", "1">>
NameChoices == {NameGps, NameIss, NameStarlink}

\* Values of --mask-include and --mask-exclude
MaskGps == <<"G", "P", "S">>
MaskGpsIssLower == <<"g", "p", "s", ",", "i", "s", "s">>
MaskBlank == <<" ", ",", " ">>
MaskGpsBiir == <<"G", "P", "S", "-", "B", "I", "I", "R", "-", "2">>
MaskStarlink == <<"S", "T", "A", "R", "L", "I", "N", "K">>
MaskStarlinkPadded ==
  <<" ", "S", "t", "a", "r", "l", "i", "n", "k", " ", ",">>
MaskIncludeChoices == {None, MaskGps, MaskGpsIssLower, MaskBlank}
MaskExcludeChoices == {None, MaskGpsBiir, MaskStarlink, MaskStarlinkPadded}

EARTH_RADIUS_KM == 6371

\* sat.model as validate_orbital_elements reads it. attrs: "ok", "missing"
\* (hasattr fails) or "bad" (float() raises). a_km stands for the product
\* float(sat.model.a) * float(sat.model.radiusearthkm), in kilometres; ecco
\* is the eccentricity in thousandths.
Elements(at, a, e) == [attrs |-> at, a_km |-> a, ecco |-> e]
ElementChoices ==
  {Elements("ok", 6921, 0), Elements("ok", 6971, 0),
   Elements("ok", 6800, 500), Elements("ok", 3000, 1000),
   Elements("ok", 6921, -1), Elements("ok", 0, 0),
   Elements("missing", 6921, 0), Elements("bad", 6921, 0)}
\* --max-apogee
MaxApogeeChoices == {500, 600}

\* An item of the list load.tle_file returns; kind "sat" is an
\* EarthSatellite.
Sat(nm, el) == [kind |-> "sat", name |-> nm, model |-> el]
NotASat ==
  [kind |-> "other", name |-> NameIss, model |-> Elements("ok", 6921, 0)]

\* Mutant of validate_orbital_elements: the apogee bound is exclusive.
validate_orbital_elementsExclusive(sat, max_apogee_km) ==
  IF sat.model.attrs # "ok" THEN FALSE
  ELSE LET a == sat.model.a_km
           e == sat.model.ecco
       IN IF e < 0 \/ e >= 1000 \/ a <= 0 THEN FALSE
          ELSE a * (1000 + e) - EARTH_RADIUS_KM * 1000 < max_apogee_km * 1000

\* validate_orbital_elements, both sides of the last comparison in
\* thousandths of a kilometre: apogee_alt = a * (1.0 + e) - EARTH_RADIUS_KM.
validate_orbital_elements(sat, max_apogee_km) ==
  IF sat.model.attrs # "ok" THEN FALSE
  ELSE LET a == sat.model.a_km
           e == sat.model.ecco
       IN IF e < 0 \/ e >= 1000 \/ a <= 0 THEN FALSE
          ELSE a * (1000 + e) - EARTH_RADIUS_KM * 1000 <= max_apogee_km * 1000

TWILIGHT_DEGS == [civil |-> 6, nautical |-> 12, astronomical |-> 18]

\* --twilight and --twilight-deg; the latter is None or <<value>>
TwilightChoices ==
  {[twilight |-> "civil", twilight_deg |-> None],
   [twilight |-> "nautical", twilight_deg |-> None],
   [twilight |-> "astronomical", twilight_deg |-> None],
   [twilight |-> "custom", twilight_deg |-> None],
   [twilight |-> "custom", twilight_deg |-> <<0>>],
   [twilight |-> "custom", twilight_deg |-> <<5>>],
   [twilight |-> "custom", twilight_deg |-> <<-9>>]}

\* The file at tle_path: age_s is time.time() - st_mtime.
NoFile == [exists |-> FALSE, age_s |-> 0, content |-> <<>>]
File(age, cat) == [exists |-> TRUE, age_s |-> age, content |-> cat]

\* Mutant of file_is_stale: a file exactly max_age_hours old is stale.
file_is_staleInclusive(f, max_age_hours) ==
  IF ~f.exists THEN TRUE ELSE f.age_s >= max_age_hours * 3600

\* file_is_stale: missing, or age > max_age_hours * 3600.0
file_is_stale(f, max_age_hours) ==
  IF ~f.exists THEN TRUE ELSE f.age_s > max_age_hours * 3600

\* What the remote end serves.
RemoteCatalog ==
  <<Sat(NameGps, Elements("ok", 6921, 0)),
    Sat(NameIss, Elements("ok", 6800, 0))>>

\* What one call of download_tle meets: the request ends in a connection
\* error, a timeout or a response with a status, and the disk takes the
\* text or fails while it is written.
Response(err, code) == [error |-> err, status |-> code]
Responses ==
  {Response("connection", 0), Response("timeout", 0), Response("none", 200),
   Response("none", 404), Response("none", 503)}
DownloadAttempts ==
  {[response |-> r, disk |-> "ok"] : r \in Responses}
    \cup {[response |-> Response("none", 200), disk |-> "full"]}
NoAttempt == [response |-> Response("none", 0), disk |-> "ok"]

\* r.raise_for_status(): an HTTPError for a 4xx or 5xx status (urlopen
\* raises it by itself)
raise_for_status(r) == r.status >= 400 /\ r.status < 600

\* How the call ends: "ok", "fetch_fails" (raised before write_text) or
\* "write_fails" (raised in write_text).
OutcomeOf(attempt) ==
  IF attempt.response.error # "none" \/ raise_for_status(attempt.response)
    THEN "fetch_fails"
    ELSE IF attempt.disk = "ok" THEN "ok" ELSE "write_fails"
DownloadOutcomes == {OutcomeOf(a) : a \in DownloadAttempts}

\* Mutant of download_tle: dest is opened for writing before the request.
download_tleOpensFirst(f, attempt) ==
  IF OutcomeOf(attempt) = "ok" THEN File(0, RemoteCatalog) ELSE File(0, <<>>)

\* download_tle, statement by statement: the file at dest after the call.
\* requests.get (or urlopen) raises on a connection error or a timeout,
\* raise_for_status on an error status; only then write_text opens dest,
\* which truncates it, and writes the text.
download_tle(f, attempt) ==
  IF attempt.response.error # "none"
    THEN f
    ELSE IF raise_for_status(attempt.response)
      THEN f
      ELSE IF attempt.disk = "ok"
        THEN File(0, RemoteCatalog)
        ELSE File(0, <<>>)

\* The fetch as the startup records it.
NoFetch ==
  [fetches |-> 0, writes |-> 0, outcome |-> "none", before |-> NoFile,
   attempt |-> NoAttempt]
Fetched(nt, outcome) ==
  [nt EXCEPT !.fetches = @ + 1,
             !.writes = IF outcome = "fetch_fails" THEN @ ELSE @ + 1,
             !.outcome = outcome]

\* -------------------------------------------------------------- SpecTick
Config(minEls, visibles, maxsats, udps, webs, udpMaxs) ==
  [min_el : minEls, visible_only : visibles, maxsat : maxsats,
   sun_alt_thresh : {AstronomicalThresh}, udp : udps, web : webs,
   udp_snapshot_max : udpMaxs]

\* The arguments of a run with the defaults of build_parser, apart from the
\* apogee bound.
DefaultArgs ==
  [twilight |-> "astronomical", twilight_deg |-> None, refresh_hrs |-> 24,
   max_apogee |-> 600, mask_include |-> None, mask_exclude |-> None,
   tle_file |-> TleFileBare, udp |-> None, web |-> None, interval |-> 1]

\* tle_path before main() assigns it.
NoPath == PurePath(FALSE, <<>>)

\* udp_sock: None, or the socket that udp_socket_context made.
NoSocket == [state |-> "none", made |-> 0]
OpenSocket == [state |-> "open", made |-> 1]
\* sock = socket.socket(socket.AF_INET, socket.SOCK_DGRAM)
MakeSocket(s) == [state |-> "open", made |-> s.made + 1]

\* Mutant of CloseSocket: the socket is left as it is.
CloseSocketNever(s) == s

\* The finally of udp_socket_context: if sock is not None: sock.close()
CloseSocket(s) == IF s.state = "none" THEN s ELSE [s EXCEPT !.state = "closed"]

\* The sinks asked for on the command line, as the loop finds them.
ArgsOf(c) ==
  [DefaultArgs EXCEPT !.udp = IF c.udp THEN Some(HostPortGood) ELSE None,
                      !.web = IF c.web THEN Some(HostPortGood) ELSE None]

\* No iteration has read the clock yet. now is time.perf_counter();
\* dispatched (history) is when the datagram and broadcast steps of the tick
\* were over, -1 before; slept (history) is the last time.sleep(), 0 for
\* none; sleeps (history) counts the passes through the end of the loop.
NoClock ==
  [now |-> 0, loop_start |-> 0, elapsed |-> 0, dispatched |-> -1,
   slept |-> 0, sleeps |-> 0]

\* The variables that single specifications follow, where they do not.
InitExtras ==
  /\ heap = <<>>
  /\ clock = NoClock
  /\ stdin_buf = <<>>
  /\ queried = <<>>
  /\ built = "none"

\* The startup is over: a fresh catalog file was found, n objects are left.
InitStartedWith(a) ==
  /\ args = a
  /\ tle_path = ResolveTlePath(args.tle_file)
  /\ tle = File(0, RemoteCatalog)
  /\ net = [NoFetch EXCEPT !.before = File(0, RemoteCatalog)]
  /\ satellites = [k \in 1..n |-> Sat(NameIss, Elements("ok", 6800, 0))]
  /\ prev = satellites
  /\ exit_code = 0
  /\ sock = IF script = "phase1" /\ cfg.udp THEN OpenSocket ELSE NoSocket

InitStarted == InitStartedWith(ArgsOf(cfg))

\* The variables of the tick loop before the first tick.
InitLoopStateFor(clients) ==
  /\ tick = 0
  /\ i = 1
  /\ sun_alt = 0
  /\ is_night = FALSE
  /\ failed = {}
  /\ ranked = <<>>
  /\ observations = <<>>
  /\ termOut = NoFrame
  /\ snapshot = NoSnapshot
  /\ udpOut = NoSnapshot
  /\ udpTries = 0
  /\ udpErr = FALSE
  /\ sseSteps = 0
  /\ enq = FALSE
  /\ stopCause = "none"
  /\ got = [c \in 1..clients |-> -1]

InitLoopState == InitLoopStateFor(NumConsumers)

InitCommon ==
  /\ InitStarted
  /\ InitExtras
  /\ pc = "top"
  /\ InitLoopState

\* alts = np.empty(n), ...: allocated once, contents arbitrary
InitArrays ==
  /\ alts \in [1..n -> UninitEl]
  /\ azs \in [1..n -> UninitAz]
  /\ rngs \in [1..n -> UninitRange]
  /\ sunlit \in [1..n -> UninitSunlit]

InitTick ==
  /\ script = "phase1"
  /\ cfg \in Config(MinElValues, BOOLEAN, MaxsatValues, {FALSE}, {FALSE}, {1})
  /\ n \in 1..MaxSats
  /\ InitArrays
  /\ stdin = <<>>
  /\ q = <<>>
  /\ InitCommon

NextTick ==
  \/ TickStart
  \/ ComputeObjectOk
  \/ ComputeObjectFails
  \/ RankAndBuild
  \/ TerminalRender
  \/ BuildSnapshot
  \/ QuitCheckNoInput
  \/ UdpSkip
  \/ SseSkip
  \/ Sleep

SpecTick == InitTick /\ [][NextTick]_vars

\* -------------------------------------------------------------- SpecLoop
\* Two fixed rows, as RankAndBuild builds them.
RowHigh == [sat |-> 1, az |-> 10, el |-> 45, range_km |-> 500, sunlit |-> TRUE]
RowLow == [sat |-> 2, az |-> 350, el |-> 0, range_km |-> 500, sunlit |-> FALSE]
\* Results of the visibility computation with maxsat = 2: no row, one, two.
ObsChoices == {<<>>, <<RowHigh>>, <<RowHigh, RowLow>>}

\* Lines of standard input, as sequences of characters.
LineQ == <<"q">>
LinePaddedQ == <<" ", "Q">>
LineOther == <<"x">>
StdinChoices == {<<>>, <<LineQ>>, <<LineOther, LinePaddedQ>>, <<LineOther>>}

\* Lines 1139-1191 reduced to their result: the tick starts and the ranked,
\* truncated observations are any of ObsChoices (SpecTick has the detail).
LoopVisibility ==
  /\ script = "phase1"
  /\ pc = "top"
  /\ tick < MaxTick
  /\ tick' = tick + 1
  /\ \E s \in SunAltValues :
       /\ sun_alt' = s
       /\ is_night' = (s <= cfg.sun_alt_thresh)
  /\ \E obs \in ObsChoices : Len(obs) <= n /\ observations' = obs
  /\ termOut' = NoFrame
  /\ snapshot' = NoSnapshot
  /\ udpOut' = NoSnapshot
  /\ udpTries' = 0
  /\ udpErr' = FALSE
  /\ enq' = FALSE
  /\ sseSteps' = 0
  /\ pc' = "terminal"
  /\ UNCHANGED <<startup, extras,
                 script, cfg, n, i, alts, azs, rngs, sunlit, failed, ranked,
                 stdin, q, stopCause, got>>

\* sys.stdout.write, flush or print raises (a closed pipe, a character the
\* console encoding lacks): the terminal output is in no try, and the try
\* around the loop handles KeyboardInterrupt only, so the error leaves
\* main() through udp_socket_context. An OSError runs its finally; a
\* UnicodeEncodeError is a ValueError, which its handler logs before it
\* yields again, so that the with statement raises RuntimeError and the
\* finally runs when the generator is disposed of.
TerminalRenderFails ==
  /\ pc = "terminal"
  /\ termOut' = [epoch |-> tick, rows |-> <<>>, line |-> "error"]
  /\ pc' = "crashed"
  /\ exit_code' = 1
  /\ sock' = CloseSocket(sock)
  /\ UNCHANGED <<args, tle_path, tle, net, satellites, prev, heap, clock,
                 stdin_buf, queried, built,
                 script, cfg, n, tick, i, sun_alt, is_night, alts, azs, rngs,
                 sunlit, failed, ranked, observations, snapshot, stdin,
                 udpOut, udpTries, udpErr, q, sseSteps, enq, stopCause, got>>

\* select() reports a line; readline().strip().lower() == "q": break
QuitCheckQuit ==
  /\ pc = "quit"
  /\ Readable
  /\ \E r \in Readline :
       /\ Lower(Strip(r.line)) = <<"q">>
       /\ stdin' = r.rest
       /\ stdin_buf' = r.buf
  /\ stopCause' = "quit"
  /\ pc' = "stopped"
  /\ sock' = CloseSocket(sock)
  /\ UNCHANGED <<startup, heap, clock, queried, built,
                 script, cfg, n, tick, i, sun_alt, is_night, alts, azs, rngs,
                 sunlit, failed, ranked, observations, termOut, snapshot,
                 udpOut, udpTries, udpErr, q, sseSteps, enq, got>>

\* select() reports a line that is not a quit directive.
QuitCheckOther ==
  /\ pc = "quit"
  /\ Readable
  /\ \E r \in Readline :
       /\ Lower(Strip(r.line)) # <<"q">>
       /\ stdin' = r.rest
       /\ stdin_buf' = r.buf
  /\ pc' = "udp"
  /\ UNCHANGED <<startup, sock, heap, clock, queried, built,
                 script, cfg, n, tick, i, sun_alt, is_night, alts, azs, rngs,
                 sunlit, failed, ranked, observations, termOut, snapshot,
                 udpOut, udpTries, udpErr, q, sseSteps, enq, stopCause, got>>

\* Mutant of Slim: the copy keeps all the rows.
SlimWholeFrame(snap) == [snap EXCEPT !.rows = snap.rows]

\* slim = snapshot.copy();
\* slim["rows"] = slim["rows"][: max(1, int(args.udp_snapshot_max))]
Slim(snap) ==
  [snap EXCEPT !.rows = Slice(snap.rows, Max(1, cfg.udp_snapshot_max))]

\* udp_sock.sendto(...) returns.
UdpSendOk ==
  /\ pc = "udp"
  /\ cfg.udp
  /\ udpOut' = Slim(snapshot)
  /\ udpTries' = udpTries + 1
  /\ pc' = "sse"
  /\ UNCHANGED <<startup, extras,
                 script, cfg, n, tick, i, sun_alt, is_night, alts, azs, rngs,
                 sunlit, failed, ranked, observations, termOut, snapshot,
                 stdin, udpErr, q, sseSteps, enq, stopCause, got>>

\* Mutant of UdpSendFails: the send is not guarded, the error leaves main().
UdpSendFailsUncaught ==
  /\ pc = "udp"
  /\ cfg.udp
  /\ udpErr' = TRUE
  /\ udpTries' = udpTries + 1
  /\ pc' = "crashed"
  /\ UNCHANGED <<startup, extras,
                 script, cfg, n, tick, i, sun_alt, is_night, alts, azs, rngs,
                 sunlit, failed, ranked, observations, termOut, snapshot,
                 stdin, udpOut, q, sseSteps, enq, stopCause, got>>

\* udp_sock.sendto(...) raises: except Exception, logged at debug level.
UdpSendFails ==
  /\ pc = "udp"
  /\ cfg.udp
  /\ udpErr' = TRUE
  /\ udpTries' = udpTries + 1
  /\ pc' = "sse"
  /\ UNCHANGED <<startup, extras,
                 script, cfg, n, tick, i, sun_alt, is_night, alts, azs, rngs,
                 sunlit, failed, ranked, observations, termOut, snapshot,
                 stdin, udpOut, q, sseSteps, enq, stopCause, got>>

\* ---- the broadcast step of Phase 1
\* while sse_queue.qsize() > 100: (true)
SseWhileEvict ==
  /\ pc = "sse"
  /\ cfg.web
  /\ Len(q) > EvictAbove
  /\ sseSteps' = sseSteps + 1
  /\ pc' = "sse_get"
  /\ UNCHANGED <<startup, extras,
                 script, cfg, n, tick, i, sun_alt, is_night, alts, azs, rngs,
                 sunlit, failed, ranked, observations, termOut, snapshot,
                 stdin, udpOut, udpTries, udpErr, q, enq, stopCause, got>>

\* Mutant of SseWhileDone: the while loop is left whatever the queue holds.
SseWhileDoneAtAnySize ==
  /\ pc = "sse"
  /\ cfg.web
  /\ sseSteps' = sseSteps + 1
  /\ pc' = "sse_put"
  /\ UNCHANGED <<startup, extras,
                 script, cfg, n, tick, i, sun_alt, is_night, alts, azs, rngs,
                 sunlit, failed, ranked, observations, termOut, snapshot,
                 stdin, udpOut, udpTries, udpErr, q, enq, stopCause, got>>

\* while sse_queue.qsize() > 100: (false)
SseWhileDone ==
  /\ pc = "sse"
  /\ cfg.web
  /\ Len(q) <= EvictAbove
  /\ sseSteps' = sseSteps + 1
  /\ pc' = "sse_put"
  /\ UNCHANGED <<startup, extras,
                 script, cfg, n, tick, i, sun_alt, is_night, alts, azs, rngs,
                 sunlit, failed, ranked, observations, termOut, snapshot,
                 stdin, udpOut, udpTries, udpErr, q, enq, stopCause, got>>

\* Mutant of SseGetNowait: the eviction takes the newest item.
SseGetNowaitNewest ==
  /\ pc = "sse_get"
  /\ IF q # <<>>
       THEN q' = SubSeq(q, 1, Len(q) - 1) /\ pc' = "sse"
       ELSE q' = q /\ pc' = "sse_put"
  /\ sseSteps' = sseSteps + 1
  /\ UNCHANGED <<startup, extras,
                 script, cfg, n, tick, i, sun_alt, is_night, alts, azs, rngs,
                 sunlit, failed, ranked, observations, termOut, snapshot,
                 stdin, udpOut, udpTries, udpErr, enq, stopCause, got>>

\* sse_queue.get_nowait() in the while loop; queue.Empty: break
SseGetNowait ==
  /\ pc = "sse_get"
  /\ IF q # <<>>
       THEN q' = Tail(q) /\ pc' = "sse"
       ELSE q' = q /\ pc' = "sse_put"
  /\ sseSteps' = sseSteps + 1
  /\ UNCHANGED <<startup, extras,
                 script, cfg, n, tick, i, sun_alt, is_night, alts, azs, rngs,
                 sunlit, failed, ranked, observations, termOut, snapshot,
                 stdin, udpOut, udpTries, udpErr, enq, stopCause, got>>

\* Mutant of SsePut: the frame is put at the head of the queue.
SsePutAtHead ==
  /\ pc \in {"sse_put", "sse_full", "sse_full_put"}
  /\ q' = <<snapshot>> \o q
  /\ enq' = TRUE
  /\ pc' = "sleep"
  /\ sseSteps' = sseSteps + 1
  /\ UNCHANGED <<startup, extras,
                 script, cfg, n, tick, i, sun_alt, is_night, alts, azs, rngs,
                 sunlit, failed, ranked, observations, termOut, snapshot,
                 stdin, udpOut, udpTries, udpErr, stopCause, got>>

\* sse_queue.put_nowait(snapshot), and the handler of queue.Full:
\*   "sse_put"       put_nowait; queue.Full enters the handler
\*   "sse_full"      the handler's get_nowait; queue.Empty is swallowed
\*   "sse_full_put"  the handler's put_nowait; queue.Full is swallowed
SsePut ==
  /\ pc \in {"sse_put", "sse_full", "sse_full_put"}
  /\ IF pc = "sse_full"
       THEN IF q # <<>>
              THEN q' = Tail(q) /\ pc' = "sse_full_put" /\ enq' = enq
              ELSE q' = q /\ pc' = "sleep" /\ enq' = enq
       ELSE IF Len(q) < QueueMaxSize
              THEN q' = Append(q, snapshot) /\ pc' = "sleep" /\ enq' = TRUE
              ELSE /\ q' = q
                   /\ pc' = IF pc = "sse_put" THEN "sse_full" ELSE "sleep"
                   /\ enq' = enq
  /\ sseSteps' = sseSteps + 1
  /\ UNCHANGED <<startup, extras,
                 script, cfg, n, tick, i, sun_alt, is_night, alts, azs, rngs,
                 sunlit, failed, ranked, observations, termOut, snapshot,
                 stdin, udpOut, udpTries, udpErr, stopCause, got>>

\* KeyboardInterrupt, raised in the main thread wherever it is; no handler
\* inside the loop catches it (they catch Exception), the one around the
\* loop does, and the loop is over.
Interrupt ==
  /\ pc \notin {"stopped", "crashed"}
  /\ stopCause' = "interrupt"
  /\ pc' = "stopped"
  /\ sock' = CloseSocket(sock)
  /\ UNCHANGED <<startup, heap, clock, stdin_buf, queried, built,
                 script, cfg, n, tick, i, sun_alt, is_night, alts, azs, rngs,
                 sunlit, failed, ranked, observations, termOut, snapshot,
                 stdin, udpOut, udpTries, udpErr, q, sseSteps, enq, got>>

\* sse_queue after the setup of --web: the heartbeat message
InitQueue == q = IF cfg.web THEN <<Heartbeat>> ELSE <<>>

InitLoop ==
  /\ script = "phase1"
  /\ cfg \in Config({10}, {FALSE}, {2}, BOOLEAN, BOOLEAN, UdpMaxValues)
  /\ n = 2
  /\ alts = [k \in 1..n |-> 45]
  /\ azs = [k \in 1..n |-> 999]
  /\ rngs = [k \in 1..n |-> 7]
  /\ sunlit = [k \in 1..n |-> TRUE]
  /\ stdin \in StdinChoices
  /\ InitQueue
  /\ InitCommon

NextLoop ==
  \/ LoopVisibility
  \/ TerminalRender
  \/ TerminalRenderFails
  \/ BuildSnapshot
  \/ QuitCheckNoInput
  \/ QuitCheckQuit
  \/ QuitCheckOther
  \/ UdpSkip
  \/ UdpSendOk
  \/ UdpSendFails
  \/ SseSkip
  \/ SseWhileDone
  \/ SsePut
  \/ Sleep
  \/ Interrupt

SpecLoop == InitLoop /\ [][NextLoop]_vars

\* ---------------------------------------------------------- SpecSnapshot
\* Phase 1: the loop of SpecLoop where the snapshot of a tick may fail to
\* build.
NextSnapshot ==
  \/ LoopVisibility
  \/ TerminalRender
  \/ BuildSnapshot
  \/ BuildSnapshotFails
  \/ QuitCheckNoInput
  \/ QuitCheckQuit
  \/ QuitCheckOther
  \/ UdpSkip
  \/ UdpSendOk
  \/ UdpSendFails
  \/ SseSkip
  \/ SseWhileDone
  \/ SsePut
  \/ Sleep
  \/ Interrupt

SpecSnapshot == InitLoop /\ [][NextSnapshot]_vars

\* -------------------------------------------------------------- SpecQuit
\* Phase 1: the quit check over any number of ticks. What was sent to
\* standard input before the first tick is up to MaxLines lines, and the
\* sender has closed its end or keeps it open.
QuitLines == {LineQ, LinePaddedQ, LineOther}
QuitInputs ==
  LET sent == UNION {[1..k -> QuitLines] : k \in 0..MaxLines}
  IN sent \cup {Append(l, EndOfFile) : l \in sent}

\* Lines 1139-1243 with nothing failing, reduced to their end: the tick is
\* rendered and its snapshot built. The tick counter stops counting at
\* MaxTick, the loop goes on.
QuitLoopBody ==
  /\ script = "phase1"
  /\ pc = "top"
  /\ tick' = Min(tick + 1, MaxTick)
  /\ termOut' = [epoch |-> tick', rows |-> <<>>, line |-> "no satellites"]
  /\ snapshot' = [type |-> "snapshot", epoch_utc |-> tick',
                  sun_alt |-> sun_alt, is_night |-> is_night, rows |-> <<>>]
  /\ pc' = "quit"
  /\ UNCHANGED <<startup, extras,
                 script, cfg, n, i, sun_alt, is_night, alts, azs, rngs,
                 sunlit, failed, ranked, observations, stdin, udpOut,
                 udpTries, udpErr, q, sseSteps, enq, stopCause, got>>

InitQuit ==
  /\ script = "phase1"
  /\ cfg \in Config({10}, {FALSE}, {2}, {FALSE}, {FALSE}, {1})
  /\ n = 2
  /\ alts = [k \in 1..n |-> 45]
  /\ azs = [k \in 1..n |-> 999]
  /\ rngs = [k \in 1..n |-> 7]
  /\ sunlit = [k \in 1..n |-> TRUE]
  /\ stdin \in QuitInputs
  /\ InitQueue
  /\ InitCommon

NextQuit ==
  \/ QuitLoopBody
  \/ QuitCheckNoInput
  \/ QuitCheckQuit
  \/ QuitCheckOther
  \/ UdpSkip
  \/ SseSkip
  \/ Sleep

\* The main thread is never held up for good: select() has a zero timeout
\* and time.sleep() returns.
SpecQuit == InitQuit /\ [][NextQuit]_vars /\ WF_vars(NextQuit)

\* ------------------------------------------------------------- SpecQueue
\* The snapshot of tick t reduced to the fields the queue's users read:
\* epoch_utc tells the frames apart.
Frame(t) == [type |-> "snapshot", epoch_utc |-> t]

\* Ticks of SpecQueue: Phase 1 evicts above EvictAbove items, v2.5.7 drops
\* at QueueMaxSize.
QueueTickLimit ==
  (IF script = "phase1" THEN EvictAbove + 1 ELSE QueueMaxSize) + QueueSlack

\* Phase 1: an iteration up to the broadcast step (lines 1139-1269), reduced
\* to the snapshot it builds.
QueueTickTo(limit) ==
  /\ script = "phase1"
  /\ pc = "top"
  /\ tick < limit
  /\ tick' = tick + 1
  /\ snapshot' = Frame(tick + 1)
  /\ enq' = FALSE
  /\ sseSteps' = 0
  /\ pc' = "sse"
  /\ UNCHANGED <<startup, extras,
                 script, cfg, n, i, sun_alt, is_night, alts, azs, rngs,
                 sunlit, failed, ranked, observations, termOut, stdin,
                 udpOut, udpTries, udpErr, q, stopCause, got>>

\* v2.5.7: an iteration up to the broadcast step (lines 442-516), reduced to
\* the snapshot it builds.
V2TickTo(limit) ==
  /\ script = "v257"
  /\ pc = "top"
  /\ tick < limit
  /\ tick' = tick + 1
  /\ snapshot' = Frame(tick + 1)
  /\ enq' = FALSE
  /\ sseSteps' = 0
  /\ pc' = "v2_sse"
  /\ UNCHANGED <<startup, extras,
                 script, cfg, n, i, sun_alt, is_night, alts, azs, rngs,
                 sunlit, failed, ranked, observations, termOut, stdin,
                 udpOut, udpTries, udpErr, q, stopCause, got>>

QueueTick == QueueTickTo(QueueTickLimit)
V2Tick == V2TickTo(QueueTickLimit)

\* Mutant of V2SsePut: sse_queue.put(snapshot), which waits for a free slot.
V2SsePutBlocking ==
  /\ pc = "v2_sse"
  /\ Len(q) < QueueMaxSize
  /\ q' = Append(q, snapshot)
  /\ enq' = TRUE
  /\ sseSteps' = sseSteps + 1
  /\ pc' = "v2_quit"
  /\ UNCHANGED <<startup, extras,
                 script, cfg, n, tick, i, sun_alt, is_night, alts, azs, rngs,
                 sunlit, failed, ranked, observations, termOut, snapshot,
                 stdin, udpOut, udpTries, udpErr, stopCause, got>>

\* v2.5.7: sse_queue.put_nowait(snapshot); except queue.Full: pass
V2SsePut ==
  /\ pc = "v2_sse"
  /\ IF Len(q) < QueueMaxSize
       THEN q' = Append(q, snapshot) /\ enq' = TRUE
       ELSE q' = q /\ enq' = enq
  /\ sseSteps' = sseSteps + 1
  /\ pc' = "v2_quit"
  /\ UNCHANGED <<startup, extras,
                 script, cfg, n, tick, i, sun_alt, is_night, alts, azs, rngs,
                 sunlit, failed, ranked, observations, termOut, snapshot,
                 stdin, udpOut, udpTries, udpErr, stopCause, got>>

\* v2.5.7: the quit check finds no input, then the sleep.
V2QuitSleep ==
  /\ pc = "v2_quit"
  /\ pc' = "top"
  /\ UNCHANGED <<startup, extras,
                 script, cfg, n, tick, i, sun_alt, is_night, alts, azs, rngs,
                 sunlit, failed, ranked, observations, termOut, snapshot,
                 stdin, udpOut, udpTries, udpErr, q, sseSteps, enq,
                 stopCause, got>>

\* Mutant of ConsumerGet: the client reads the oldest message and leaves it
\* in the queue.
ConsumerGetKeepsMessage(c) ==
  /\ q # <<>>
  /\ got' = [got EXCEPT ![c] = Head(q).epoch_utc]
  /\ UNCHANGED <<startup, extras,
                 script, cfg, n, pc, tick, i, sun_alt, is_night, alts, azs,
                 rngs, sunlit, failed, ranked, observations, termOut,
                 snapshot, stdin, udpOut, udpTries, udpErr, q, sseSteps, enq,
                 stopCause>>

\* gen() of a streaming client: msg = q.get() waits for a message, takes the
\* oldest and yields it.
ConsumerGet(c) ==
  /\ q # <<>>
  /\ got' = [got EXCEPT ![c] = Head(q).epoch_utc]
  /\ q' = Tail(q)
  /\ UNCHANGED <<startup, extras,
                 script, cfg, n, pc, tick, i, sun_alt, is_night, alts, azs,
                 rngs, sunlit, failed, ranked, observations, termOut,
                 snapshot, stdin, udpOut, udpTries, udpErr, sseSteps, enq,
                 stopCause>>

\* The connected clients are those got keeps a record for.
Consume == \E c \in DOMAIN got : ConsumerGet(c)

\* The queue as each script's --web setup leaves it.
InitScriptQueue == q = IF script = "phase1" THEN <<Heartbeat>> ELSE <<>>

InitQueueSpec ==
  /\ script \in {"phase1", "v257"}
  /\ cfg \in Config({10}, {FALSE}, {2}, {FALSE}, {TRUE}, {1})
  /\ n = 2
  /\ alts = [k \in 1..n |-> 45]
  /\ azs = [k \in 1..n |-> 999]
  /\ rngs = [k \in 1..n |-> 7]
  /\ sunlit = [k \in 1..n |-> TRUE]
  /\ stdin = <<>>
  /\ InitScriptQueue
  /\ InitCommon

\* The steps of the producer's broadcast step, in either script.
BroadcastStep ==
  \/ SseWhileEvict
  \/ SseWhileDone
  \/ SseGetNowait
  \/ SsePut
  \/ V2SsePut

NextQueue ==
  \/ QueueTick
  \/ V2Tick
  \/ BroadcastStep
  \/ Sleep
  \/ V2QuitSleep
  \/ Consume

SpecQueue == InitQueueSpec /\ [][NextQueue]_vars

\* ----------------------------------------------------------- SpecClients
\* Both scripts with several streaming clients connected to /events: each
\* request runs gen() in a thread of its own (threaded=True) over the one
\* queue that start_web_server was given. A few ticks, each of which
\* reaches the broadcast step.
NumClients == NumConsumers + 1
ClientTicks == MaxTick + 1

ClientsTick == QueueTickTo(ClientTicks)
V2ClientsTick == V2TickTo(ClientTicks)

InitClients ==
  /\ script \in {"phase1", "v257"}
  /\ cfg \in Config({10}, {FALSE}, {2}, {FALSE}, {TRUE}, {1})
  /\ n = 2
  /\ alts = [k \in 1..n |-> 45]
  /\ azs = [k \in 1..n |-> 999]
  /\ rngs = [k \in 1..n |-> 7]
  /\ sunlit = [k \in 1..n |-> TRUE]
  /\ stdin = <<>>
  /\ InitScriptQueue
  /\ InitStarted
  /\ InitExtras
  /\ pc = "top"
  /\ InitLoopStateFor(NumClients)

NextClients ==
  \/ ClientsTick
  \/ V2ClientsTick
  \/ SseWhileDone
  \/ SsePut
  \/ V2SsePut
  \/ Sleep
  \/ V2QuitSleep
  \/ Consume

SpecClients == InitClients /\ [][NextClients]_vars

\* ------------------------------------------------------------ SpecV2Tick
\* v2.5.7: one iteration of the main loop, object by object.
\* x + c on floats: a tiny part is lost by the rounding unless the sum of
\* the whole parts is zero.
FloatAdd(x, c) ==
  [deg |-> x.deg + c, tiny |-> IF x.deg + c = 0 THEN x.tiny ELSE 0]

\* loop_start, t, now, the Sun's altitude, is_night, and the four arrays of
\* np.empty(n), whose contents are arbitrary.
V2TickStart ==
  /\ script = "v257"
  /\ pc = "top"
  /\ tick < MaxTick
  /\ tick' = tick + 1
  /\ \E s \in SunAltValues :
       /\ sun_alt' = s
       /\ is_night' = (s <= cfg.sun_alt_thresh)
  /\ alts' \in [1..n -> UninitEl]
  /\ azs' \in [1..n -> UninitAz]
  /\ rngs' \in [1..n -> UninitRange]
  /\ sunlit' \in [1..n -> UninitSunlit]
  /\ i' = 1
  /\ failed' = {}
  /\ ranked' = <<>>
  /\ observations' = <<>>
  /\ termOut' = NoFrame
  /\ snapshot' = NoSnapshot
  /\ udpOut' = NoSnapshot
  /\ udpTries' = 0
  /\ udpErr' = FALSE
  /\ enq' = FALSE
  /\ sseSteps' = 0
  /\ pc' = "v2_compute"
  /\ UNCHANGED <<startup, extras, script, cfg, n, stdin, q, stopCause, got>>

\* One iteration of the for loop: alt, az, dist = diff.at(t).altaz(), the
\* three array writes, and the sunlit query in its try.
V2ComputeObjectOk ==
  /\ pc = "v2_compute"
  /\ \E r \in AltazResults, sl \in {"true", "false", "raises"} :
       /\ alts' = [alts EXCEPT ![i] = r.el]
       /\ azs' = [azs EXCEPT
                    ![i] = FloatMod(FloatAdd(r.az, FULL_CIRCLE_DEG),
                                    FULL_CIRCLE_DEG)]
       /\ rngs' = [rngs EXCEPT ![i] = r.km]
       /\ sunlit' = [sunlit EXCEPT ![i] = (sl # "false")]
  /\ i' = i + 1
  /\ pc' = IF i = n THEN "v2_filter" ELSE "v2_compute"
  /\ UNCHANGED <<startup, extras,
                 script, cfg, n, tick, sun_alt, is_night, failed, ranked,
                 observations, termOut, snapshot, stdin, udpOut, udpTries,
                 udpErr, q, sseSteps, enq, stopCause, got>>

\* One iteration of the for loop whose altaz query raises: no handler in the
\* for loop, and the try around the while loop catches KeyboardInterrupt
\* only, so the exception leaves main().
V2ComputeObjectRaises ==
  /\ pc = "v2_compute"
  /\ failed' = failed \cup {i}
  /\ pc' = "crashed"
  /\ exit_code' = 1
  /\ UNCHANGED <<args, tle_path, tle, net, satellites, prev, extras,
                 script, cfg, n, tick, i, sun_alt, is_night, alts, azs, rngs,
                 sunlit, ranked, observations, termOut, snapshot, stdin,
                 udpOut, udpTries, udpErr, q, sseSteps, enq, stopCause, got>>

\* A row of v2.5.7: (name, az, el, rng)
V2Row(k) == [sat |-> k, az |-> azs[k], el |-> alts[k], range_km |-> rngs[k]]

\* The mask, the ranking, idx[:maxsat], the rows, the terminal output and
\* the snapshot dict.
V2RankAndBuild ==
  /\ pc = "v2_filter"
  /\ \E p \in ArgsortDesc(alts, {k \in 1..n : Mask(k)}) :
       LET idx == Slice(p, maxsat)
           rows == [k \in 1..Len(idx) |-> V2Row(idx[k])]
       IN /\ ranked' = p
          /\ observations' = rows
          /\ termOut' = [epoch |-> tick, rows |-> rows,
                         line |-> IF rows # <<>> THEN "rows"
                                  ELSE "no satellites"]
          /\ snapshot' = [type |-> "snapshot", epoch_utc |-> tick,
                          rows |-> rows]
  /\ pc' = "v2_udp"
  /\ UNCHANGED <<startup, extras,
                 script, cfg, n, tick, i, sun_alt, is_night, alts, azs, rngs,
                 sunlit, failed, stdin, udpOut, udpTries, udpErr, q,
                 sseSteps, enq, stopCause, got>>

\* The UDP snapshot: slim = snapshot.copy() with the first
\* max(1, int(args.udp_snapshot_max)) rows, sendto in a try that passes.
V2UdpSend ==
  /\ pc = "v2_udp"
  /\ IF cfg.udp
       THEN \E ok \in BOOLEAN :
              /\ udpOut' = IF ok
                             THEN [snapshot EXCEPT
                                     !.rows =
                                       Slice(@, Max(1, cfg.udp_snapshot_max))]
                             ELSE udpOut
              /\ udpErr' = ~ok
              /\ udpTries' = udpTries + 1
       ELSE UNCHANGED <<udpOut, udpErr, udpTries>>
  /\ pc' = "v2_sse"
  /\ UNCHANGED <<startup, extras,
                 script, cfg, n, tick, i, sun_alt, is_night, alts, azs, rngs,
                 sunlit, failed, ranked, observations, termOut, snapshot,
                 stdin, q, sseSteps, enq, stopCause, got>>

InitV2Tick ==
  /\ script = "v257"
  /\ cfg \in Config(MinElValues, BOOLEAN, {1, 2}, BOOLEAN, {TRUE}, {1})
  /\ n \in 1..MaxSats
  /\ InitArrays
  /\ stdin = <<>>
  /\ q = <<>>
  /\ InitCommon

NextV2Tick ==
  \/ V2TickStart
  \/ V2ComputeObjectOk
  \/ V2ComputeObjectRaises
  \/ V2RankAndBuild
  \/ V2UdpSend
  \/ V2SsePut
  \/ V2QuitSleep

SpecV2Tick == InitV2Tick /\ [][NextV2Tick]_vars

\* ------------------------------------------------------------- SpecFrame
\* Phase 1: the snapshot of a tick as the objects it is made of. heap[id] is
\* the dict or list with identity id; snapshot and the items of sse_queue
\* are identities here. A dict keeps in "built" what the tick set out to
\* put into it (history).
ListObject(rows) == [kind |-> "list", items |-> rows]
DictObject(t, alt, night, rowsId, purpose) ==
  [kind |-> "dict", type |-> "snapshot", epoch_utc |-> t, sun_alt |-> alt,
   is_night |-> night, rows |-> rowsId, built |-> purpose]

\* json.dumps(d): the dict as the text of a message shows it
Dumps(h, id) ==
  [type |-> h[id].type, epoch_utc |-> h[id].epoch_utc,
   sun_alt |-> h[id].sun_alt, is_night |-> h[id].is_night,
   rows |-> h[h[id].rows].items]

\* snapshot = {"type": "snapshot", ..., "rows": []}
HeapNewSnapshot ==
  /\ pc = "snapshot"
  /\ heap' = heap \o
       <<ListObject(<<>>),
         DictObject(tick, sun_alt, is_night, Len(heap) + 1,
                    [type |-> "snapshot", epoch_utc |-> tick,
                     sun_alt |-> sun_alt, is_night |-> is_night,
                     rows |-> observations])>>
  /\ snapshot' = Len(heap) + 2
  /\ i' = 1
  /\ pc' = IF observations = <<>> THEN "quit" ELSE "rows"
  /\ UNCHANGED <<startup, sock, clock, stdin_buf, queried, built,
                 script, cfg, n, tick, sun_alt, is_night, alts, azs, rngs,
                 sunlit, failed, ranked, observations, termOut, stdin,
                 udpOut, udpTries, udpErr, q, sseSteps, enq, stopCause, got>>

\* for obs in observations: snapshot["rows"].append(row), one pass of it
HeapAppendRow ==
  /\ pc = "rows"
  /\ heap' = [heap EXCEPT ![heap[snapshot].rows].items =
                            Append(@, observations[i])]
  /\ i' = i + 1
  /\ pc' = IF i = Len(observations) THEN "quit" ELSE "rows"
  /\ UNCHANGED <<startup, sock, clock, stdin_buf, queried, built,
                 script, cfg, n, tick, sun_alt, is_night, alts, azs, rngs,
                 sunlit, failed, ranked, observations, termOut, snapshot,
                 stdin, udpOut, udpTries, udpErr, q, sseSteps, enq,
                 stopCause, got>>

\* Mutant of HeapUdpSend: no copy; the rows of the snapshot are cut in
\* place (slim = snapshot; del slim["rows"][k:]).
HeapUdpSendInPlace ==
  /\ pc = "udp"
  /\ cfg.udp
  /\ heap' = [heap EXCEPT ![heap[snapshot].rows].items =
                            Slice(@, Max(1, cfg.udp_snapshot_max))]
  /\ \E ok \in BOOLEAN :
       /\ udpOut' = IF ok THEN Dumps(heap', snapshot) ELSE udpOut
       /\ udpErr' = ~ok
  /\ udpTries' = udpTries + 1
  /\ pc' = "sse"
  /\ UNCHANGED <<startup, sock, clock, stdin_buf, queried, built,
                 script, cfg, n, tick, i, sun_alt, is_night, alts, azs, rngs,
                 sunlit, failed, ranked, observations, termOut, snapshot,
                 stdin, q, sseSteps, enq, stopCause, got>>

\* slim = snapshot.copy(), a new dict with the same values;
\* slim["rows"] = slim["rows"][:max(1, cap)], a new list; sendto of
\* json.dumps(slim) in its try.
HeapUdpSend ==
  /\ pc = "udp"
  /\ cfg.udp
  /\ heap' = heap \o
       <<[heap[snapshot] EXCEPT !.rows = Len(heap) + 2],
         ListObject(Slice(heap[heap[snapshot].rows].items,
                          Max(1, cfg.udp_snapshot_max)))>>
  /\ \E ok \in BOOLEAN :
       /\ udpOut' = IF ok THEN Dumps(heap', Len(heap) + 1) ELSE udpOut
       /\ udpErr' = ~ok
  /\ udpTries' = udpTries + 1
  /\ pc' = "sse"
  /\ UNCHANGED <<startup, sock, clock, stdin_buf, queried, built,
                 script, cfg, n, tick, i, sun_alt, is_night, alts, azs, rngs,
                 sunlit, failed, ranked, observations, termOut, snapshot,
                 stdin, q, sseSteps, enq, stopCause, got>>

\* After the --web setup: the heartbeat dict is the one object, on the queue.
InitFrame ==
  /\ script = "phase1"
  /\ cfg \in Config({10}, {FALSE}, {2}, BOOLEAN, {TRUE}, UdpMaxValues)
  /\ n = 2
  /\ alts = [k \in 1..n |-> 45]
  /\ azs = [k \in 1..n |-> 999]
  /\ rngs = [k \in 1..n |-> 7]
  /\ sunlit = [k \in 1..n |-> TRUE]
  /\ stdin = <<>>
  /\ q = <<1>>
  /\ InitStarted
  /\ heap = <<Heartbeat>>
  /\ clock = NoClock
  /\ stdin_buf = <<>>
  /\ queried = <<>>
  /\ built = "none"
  /\ pc = "top"
  /\ InitLoopState

NextFrame ==
  \/ LoopVisibility
  \/ TerminalRender
  \/ HeapNewSnapshot
  \/ HeapAppendRow
  \/ QuitCheckNoInput
  \/ UdpSkip
  \/ HeapUdpSend
  \/ SseWhileDone
  \/ SsePut
  \/ Sleep

SpecFrame == InitFrame /\ [][NextFrame]_vars

\* ---------------------------------------------------------- SpecSchedule
\* Phase 1: an iteration of the loop as the clock sees it. Time is in whole
\* units; the work of a step takes any of a few durations.
\* --interval
IntervalValues == {1, 2, 3}
\* What the computation, terminal output, snapshot and quit check take.
ComputeDurations == {0, 1, 2, 4}
\* What the datagram and broadcast steps take.
DispatchDurations == {0, 1}

\* loop_start = time.perf_counter()
SchedStart ==
  /\ pc = "top"
  /\ tick < MaxTick
  /\ tick' = tick + 1
  /\ clock' = [clock EXCEPT !.loop_start = clock.now, !.dispatched = -1]
  /\ pc' = "work"
  /\ UNCHANGED <<startup, sock, heap, stdin_buf, queried, built,
                 script, cfg, n, i, sun_alt, is_night, alts, azs, rngs,
                 sunlit, failed, ranked, observations, termOut, snapshot,
                 stdin, udpOut, udpTries, udpErr, q, sseSteps, enq,
                 stopCause, got>>

\* Lines 1141-1254 when the snapshot is built and no quit line is read, as
\* the time they take; then elapsed = time.perf_counter() - loop_start.
SchedComputeAndMeasure ==
  /\ pc = "work"
  /\ \E d \in ComputeDurations :
       clock' = [clock EXCEPT !.now = @ + d,
                              !.elapsed = clock.now + d - clock.loop_start]
  /\ termOut' = [epoch |-> tick, rows |-> <<>>, line |-> "no satellites"]
  /\ pc' = "dispatch"
  /\ UNCHANGED <<startup, sock, heap, stdin_buf, queried, built,
                 script, cfg, n, tick, i, sun_alt, is_night, alts, azs, rngs,
                 sunlit, failed, ranked, observations, snapshot, stdin,
                 udpOut, udpTries, udpErr, q, sseSteps, enq, stopCause, got>>

\* The UDP snapshot and the Web SSE snapshot, as the time they take.
SchedDispatch ==
  /\ pc = "dispatch"
  /\ \E d \in DispatchDurations :
       clock' = [clock EXCEPT !.now = @ + d, !.dispatched = clock.now + d]
  /\ udpTries' = IF cfg.udp THEN 1 ELSE 0
  /\ enq' = cfg.web
  /\ pc' = "delay"
  /\ UNCHANGED <<startup, sock, heap, stdin_buf, queried, built,
                 script, cfg, n, tick, i, sun_alt, is_night, alts, azs, rngs,
                 sunlit, failed, ranked, observations, termOut, snapshot,
                 stdin, udpOut, udpErr, q, sseSteps, stopCause, got>>

\* delay = float(args.interval) - elapsed; if delay > 0: time.sleep(delay)
SchedSleep ==
  /\ pc = "delay"
  /\ LET delay == args.interval - clock.elapsed
     IN clock' = [clock EXCEPT !.now = IF delay > 0 THEN @ + delay ELSE @,
                               !.slept = IF delay > 0 THEN delay ELSE 0,
                               !.sleeps = @ + 1]
  /\ udpTries' = 0
  /\ enq' = FALSE
  /\ pc' = "top"
  /\ UNCHANGED <<startup, sock, heap, stdin_buf, queried, built,
                 script, cfg, n, tick, i, sun_alt, is_night, alts, azs, rngs,
                 sunlit, failed, ranked, observations, termOut, snapshot,
                 stdin, udpOut, udpErr, q, sseSteps, stopCause, got>>

InitSchedule ==
  /\ script = "phase1"
  /\ cfg \in Config({10}, {FALSE}, {2}, {TRUE}, {TRUE}, {1})
  /\ n = 2
  /\ alts = [k \in 1..n |-> 45]
  /\ azs = [k \in 1..n |-> 999]
  /\ rngs = [k \in 1..n |-> 7]
  /\ sunlit = [k \in 1..n |-> TRUE]
  /\ stdin = <<>>
  /\ q = <<Heartbeat>>
  /\ \E v \in IntervalValues :
       InitStartedWith([ArgsOf(cfg) EXCEPT !.interval = v])
  /\ InitExtras
  /\ pc = "top"
  /\ InitLoopState

NextSchedule ==
  \/ SchedStart
  \/ SchedComputeAndMeasure
  \/ SchedDispatch
  \/ SchedSleep

SpecSchedule == InitSchedule /\ [][NextSchedule]_vars

\* ----------------------------------------------------------- SpecStartup
\* main() from its first line to the first tick, then the tick loop.
\* The variables of the tick loop, which the startup leaves alone.
loopState ==
  <<tick, i, sun_alt, is_night, failed, ranked, observations, termOut,
    snapshot, stdin, udpOut, udpTries, udpErr, sseSteps, enq, stopCause,
    got>>
arrays == <<n, alts, azs, rngs, sunlit>>

\* sys.exit(code)
Exit(code) == pc' = "exited" /\ exit_code' = code

\* Where each script goes after the twilight threshold.
AfterTwilight == IF script = "phase1" THEN "web_setup" ELSE "v2_setup"

\* Mutant of ParseTwilight: --twilight-deg 0 is accepted.
ParseTwilightAllowsZero ==
  /\ pc = "start"
  /\ IF args.twilight = "custom"
       THEN IF args.twilight_deg = None \/ args.twilight_deg[1] > 0
              THEN Exit(2) /\ cfg' = cfg
              ELSE /\ cfg' = [cfg EXCEPT !.sun_alt_thresh = args.twilight_deg[1]]
                   /\ pc' = AfterTwilight
                   /\ exit_code' = exit_code
       ELSE /\ cfg' = [cfg EXCEPT
                         !.sun_alt_thresh = -TWILIGHT_DEGS[args.twilight]]
            /\ pc' = AfterTwilight
            /\ exit_code' = exit_code
  /\ UNCHANGED <<script, q, args, tle_path, tle, net, satellites, prev, arrays,
                 loopState, extras>>

\* The twilight threshold, the same code in both scripts: custom with no
\* value or a value >= 0 exits with status 2.
ParseTwilight ==
  /\ pc = "start"
  /\ IF args.twilight = "custom"
       THEN IF args.twilight_deg = None \/ args.twilight_deg[1] >= 0
              THEN Exit(2) /\ cfg' = cfg
              ELSE /\ cfg' = [cfg EXCEPT !.sun_alt_thresh = args.twilight_deg[1]]
                   /\ pc' = AfterTwilight
                   /\ exit_code' = exit_code
       ELSE /\ cfg' = [cfg EXCEPT
                         !.sun_alt_thresh = -TWILIGHT_DEGS[args.twilight]]
            /\ pc' = AfterTwilight
            /\ exit_code' = exit_code
  /\ UNCHANGED <<script, q, args, tle_path, tle, net, satellites, prev, arrays,
                 loopState, extras>>

\* Phase 1, Web SSE setup: nothing for a --web that is None or ""; else
\* Flask missing exits with status 2, a ValueError of parse_hostport exits
\* with status 2, or the queue gets its heartbeat and the server thread is
\* started.
WebSetup ==
  /\ pc = "web_setup"
  /\ IF ~Truthy(args.web)
       THEN q' = q /\ pc' = "tle" /\ exit_code' = exit_code
       ELSE \E HAVE_FLASK \in BOOLEAN :
              IF HAVE_FLASK /\ parse_hostport(args.web[1]).ok
                THEN q' = <<Heartbeat>> /\ pc' = "tle" /\ exit_code' = exit_code
                ELSE q' = q /\ Exit(2)
  /\ UNCHANGED <<script, cfg, args, tle_path, tle, net, satellites, prev,
                 arrays, loopState, extras>>

\* v2.5.7, maxsat to the Skyfield setup: a malformed --udp or --web raises
\* out of main(), Flask missing exits with status 2.
V2Setup ==
  /\ pc = "v2_setup"
  /\ \E outcome \in {"ok", "no_flask", "raises"} :
       CASE outcome = "ok" -> pc' = "v2_tle" /\ exit_code' = exit_code
         [] outcome = "no_flask" -> cfg.web /\ Exit(2)
         [] outcome = "raises" ->
              (cfg.udp \/ cfg.web) /\ pc' = "crashed" /\ exit_code' = 1
  /\ UNCHANGED <<script, cfg, q, args, tle_path, tle, net, satellites, prev,
                 arrays,
                 loopState, extras>>

\* Mutant of FetchCatalog: a failed download is fatal whether or not a file
\* is there.
FetchCatalogAlwaysFatal ==
  /\ pc = "tle"
  /\ tle_path' = ResolveTlePath(args.tle_file)
  /\ IF file_is_stale(tle, args.refresh_hrs)
       THEN \E attempt \in DownloadAttempts :
            LET outcome == OutcomeOf(attempt)
            IN
              /\ tle' = download_tle(tle, attempt)
              /\ net' = [Fetched(net, outcome) EXCEPT !.attempt = attempt]
              /\ IF outcome # "ok"
                   THEN Exit(1)
                   ELSE pc' = "load" /\ exit_code' = exit_code
       ELSE /\ tle' = tle
            /\ net' = net
            /\ pc' = "load"
            /\ exit_code' = exit_code
  /\ UNCHANGED <<script, cfg, q, args, satellites, prev, arrays, loopState,
                 extras>>

\* Phase 1: if file_is_stale(...): download_tle in a try; when it raises
\* and tle_path does not exist, exit with status 1.
FetchCatalog ==
  /\ pc = "tle"
  /\ tle_path' = ResolveTlePath(args.tle_file)
  /\ IF file_is_stale(tle, args.refresh_hrs)
       THEN \E attempt \in DownloadAttempts :
            LET outcome == OutcomeOf(attempt)
            IN
              /\ tle' = download_tle(tle, attempt)
              /\ net' = [Fetched(net, outcome) EXCEPT !.attempt = attempt]
              /\ IF outcome # "ok" /\ ~tle'.exists
                   THEN Exit(1)
                   ELSE pc' = "load" /\ exit_code' = exit_code
       ELSE /\ tle' = tle
            /\ net' = net
            /\ pc' = "load"
            /\ exit_code' = exit_code
  /\ UNCHANGED <<script, cfg, q, args, satellites, prev, arrays, loopState,
                 extras>>

\* v2.5.7: if file_is_stale(...): download_tle in a try; an error is only
\* reported.
V2FetchCatalog ==
  /\ pc = "v2_tle"
  /\ tle_path' = ResolveTlePathV2(args.tle_file)
  /\ IF file_is_stale(tle, args.refresh_hrs)
       THEN \E attempt \in DownloadAttempts :
            LET outcome == OutcomeOf(attempt)
            IN
              /\ tle' = download_tle(tle, attempt)
              /\ net' = [Fetched(net, outcome) EXCEPT !.attempt = attempt]
       ELSE tle' = tle /\ net' = net
  /\ pc' = "load"
  /\ UNCHANGED <<script, cfg, q, args, satellites, prev, exit_code, arrays,
                 loopState, extras>>

\* satellites = load.tle_file(path); an error exits with status 1.
LoadCatalog ==
  /\ pc = "load"
  /\ \E readable \in BOOLEAN :
       IF readable /\ tle.exists
         THEN /\ satellites' = tle.content
              /\ pc' = "structural"
              /\ exit_code' = exit_code
         ELSE satellites' = satellites /\ Exit(1)
  /\ UNCHANGED <<script, cfg, q, args, tle_path, tle, net, prev, arrays,
                 loopState, extras>>

\* Mutant of FilterStage: an empty catalog goes on to the next stage.
FilterStageNoExit(kept, next) ==
  /\ prev' = satellites
  /\ satellites' = kept
  /\ pc' = next
  /\ exit_code' = exit_code
  /\ UNCHANGED <<script, cfg, q, args, tle_path, tle, net, arrays, loopState,
                 extras>>

\* What a filter stage leaves: an empty catalog exits with status 1.
FilterStage(kept, next) ==
  /\ prev' = satellites
  /\ satellites' = kept
  /\ IF kept = <<>> THEN Exit(1) ELSE pc' = next /\ exit_code' = exit_code
  /\ UNCHANGED <<script, cfg, q, args, tle_path, tle, net, arrays, loopState,
                 extras>>

\* satellites = [s for s in satellites if isinstance(s, EarthSatellite)]
StructuralFilter ==
  /\ pc = "structural"
  /\ FilterStage(SelectSeq(satellites, LAMBDA s : s.kind = "sat"), "apogee")

\* Phase 1: [s for s in satellites if validate_orbital_elements(s, ...)]
ApogeeFilter ==
  /\ script = "phase1"
  /\ pc = "apogee"
  /\ FilterStage(SelectSeq(satellites,
        LAMBDA s : validate_orbital_elements(s, args.max_apogee)), "mask")

\* v2.5.7: apogee_alt <= args.max_apogee keeps the object, an exception
\* skips it; the eccentricity and the axis are not looked at.
V2ApogeeFilter ==
  /\ script = "v257"
  /\ pc = "apogee"
  /\ FilterStage(SelectSeq(satellites,
        LAMBDA s : /\ s.model.attrs = "ok"
                   /\ s.model.a_km * (1000 + s.model.ecco)
                        - EARTH_RADIUS_KM * 1000 <= args.max_apogee * 1000),
        "mask")

\* The name masks: if inc or exc, keep the names name_matches accepts.
\* Phase 1 goes on to allocate its arrays, v2.5.7 enters its loop.
MaskFilter ==
  /\ pc = "mask"
  /\ LET inc == compile_mask_list(args.mask_include)
         exc == compile_mask_list(args.mask_exclude)
     IN FilterStage(
          IF inc # None \/ exc # None
            THEN SelectSeq(satellites, LAMBDA s : name_matches(s.name, inc, exc))
            ELSE satellites,
          IF script = "phase1" THEN "alloc" ELSE "top")

\* Phase 1: n and the arrays of np.empty(n), then udp_socket_context:
\* None yields no socket; a ValueError of parse_hostport is logged and
\* yields no socket, and main() exits with status 2 "if udp_sock is None and
\* args.udp", which an empty --udp does not satisfy; else the socket is made
\* and the loop is entered.
EnterLoop ==
  /\ pc = "alloc"
  /\ n' = Len(satellites)
  /\ alts' \in [1..Len(satellites) -> UninitEl]
  /\ azs' \in [1..Len(satellites) -> UninitAz]
  /\ rngs' \in [1..Len(satellites) -> UninitRange]
  /\ sunlit' \in [1..Len(satellites) -> UninitSunlit]
  /\ IF args.udp # None /\ parse_hostport(args.udp[1]).ok
       THEN sock' = MakeSocket(sock) /\ pc' = "top" /\ exit_code' = exit_code
       ELSE /\ sock' = sock
            /\ IF Truthy(args.udp)
                 THEN Exit(2)
                 ELSE pc' = "top" /\ exit_code' = exit_code
  /\ UNCHANGED <<script, cfg, q, args, tle_path, tle, net, satellites, prev,
                 loopState, heap, clock, stdin_buf,
                 queried, built>>

\* --mask-include and --mask-exclude of SpecStartup
StartupMasks ==
  {<<None, None>>, <<MaskGps, MaskGpsBiir>>, <<None, MaskStarlink>>}

\* --udp or --web of SpecStartup, for a sink that is asked for or not; the
\* outcome of a malformed value in v2.5.7 is drawn in V2Setup.
StartupHostPorts(on) ==
  IF ~on THEN {None}
  ELSE IF script = "phase1" THEN {Some(HostPortGood), Some(HostPortNoColon)}
  ELSE {Some(HostPortGood)}

\* The default of --tle-file in each script.
DefaultTleFile == IF script = "phase1" THEN TleFileBare ELSE TleFileInCache

\* The catalog file before the startup: missing, or of some age with some
\* content. 86400 s is exactly the 24 h of --refresh-hrs.
LocalCatalogs ==
  {<<>>, <<NotASat>>, <<Sat(NameIss, Elements("ok", 6800, 500))>>,
   <<Sat(NameStarlink, Elements("ok", 6921, 0))>>,
   <<Sat(NameIss, Elements("ok", 6800, 0)),
     Sat(NameStarlink, Elements("ok", 6921, 0))>>, RemoteCatalog}
StartupFiles ==
  {NoFile} \cup {File(0, c) : c \in LocalCatalogs}
    \cup {File(86400, RemoteCatalog), File(86401, RemoteCatalog),
          File(86401, <<NotASat>>)}

InitStartup ==
  /\ script \in {"phase1", "v257"}
  /\ cfg \in {[c EXCEPT !.sun_alt_thresh = 0] :
               c \in Config({10}, {FALSE}, {2}, BOOLEAN, BOOLEAN, {1})}
  /\ args \in {[DefaultArgs EXCEPT !.twilight = t.twilight,
                                   !.twilight_deg = t.twilight_deg,
                                   !.mask_include = m[1],
                                   !.mask_exclude = m[2],
                                   !.tle_file = DefaultTleFile,
                                   !.udp = u, !.web = w] :
                 t \in TwilightChoices, m \in StartupMasks,
                 u \in StartupHostPorts(cfg.udp),
                 w \in StartupHostPorts(cfg.web)}
  /\ tle_path = NoPath
  /\ tle \in StartupFiles
  /\ net = [NoFetch EXCEPT !.before = tle]
  /\ satellites = <<>>
  /\ prev = <<>>
  /\ exit_code = 0
  /\ sock = NoSocket
  /\ InitExtras
  /\ n = 0
  /\ alts = <<>>
  /\ azs = <<>>
  /\ rngs = <<>>
  /\ sunlit = <<>>
  /\ stdin = <<>>
  /\ q = <<>>
  /\ pc = "start"
  /\ InitLoopState

NextStartup ==
  \/ ParseTwilight
  \/ WebSetup
  \/ V2Setup
  \/ FetchCatalog
  \/ V2FetchCatalog
  \/ LoadCatalog
  \/ StructuralFilter
  \/ ApogeeFilter
  \/ V2ApogeeFilter
  \/ MaskFilter
  \/ EnterLoop
  \/ LoopVisibility
  \/ TerminalRender
  \/ BuildSnapshot
  \/ QuitCheckNoInput
  \/ UdpSkip
  \/ UdpSendOk
  \/ UdpSendFails
  \/ SseSkip
  \/ SseWhileDone
  \/ SsePut
  \/ Sleep

SpecStartup == InitStartup /\ [][NextStartup]_vars

\* ------------------------------------------------------------ SpecFilter
\* The three filter stages of Phase 1 on catalogs of one or two items.
FilterEntries ==
  {Sat(nm, el) : nm \in NameChoices, el \in ElementChoices} \cup {NotASat}
FilterCatalogs ==
  {<<a>> : a \in FilterEntries}
    \cup {<<a, b>> : a \in FilterEntries, b \in FilterEntries}

InitFilter ==
  /\ script = "phase1"
  /\ cfg \in Config({10}, {FALSE}, {2}, {FALSE}, {FALSE}, {1})
  /\ args \in {[DefaultArgs EXCEPT !.max_apogee = mx,
                                   !.mask_include = inc,
                                   !.mask_exclude = exc] :
                 mx \in MaxApogeeChoices, inc \in MaskIncludeChoices,
                 exc \in MaskExcludeChoices}
  /\ satellites \in FilterCatalogs
  /\ tle_path = ResolveTlePath(args.tle_file)
  /\ tle = File(0, satellites)
  /\ net = [NoFetch EXCEPT !.before = tle]
  /\ prev = <<>>
  /\ exit_code = 0
  /\ sock = NoSocket
  /\ InitExtras
  /\ n = 0
  /\ alts = <<>>
  /\ azs = <<>>
  /\ rngs = <<>>
  /\ sunlit = <<>>
  /\ stdin = <<>>
  /\ q = <<>>
  /\ pc = "structural"
  /\ InitLoopState

NextFilter ==
  \/ StructuralFilter
  \/ ApogeeFilter
  \/ MaskFilter

SpecFilter == InitFilter /\ [][NextFilter]_vars

\* ------------------------------------------------------------- SpecCache
\* The catalog file handling of both scripts for every --tle-file: the
\* path, the staleness check and download, the load.
InitCache ==
  /\ script \in {"phase1", "v257"}
  /\ cfg \in Config({10}, {FALSE}, {2}, {FALSE}, {FALSE}, {1})
  /\ args \in {[DefaultArgs EXCEPT !.tle_file = f] : f \in TleFileChoices}
  /\ tle_path = NoPath
  /\ tle \in StartupFiles
  /\ net = [NoFetch EXCEPT !.before = tle]
  /\ satellites = <<>>
  /\ prev = <<>>
  /\ exit_code = 0
  /\ sock = NoSocket
  /\ InitExtras
  /\ n = 0
  /\ alts = <<>>
  /\ azs = <<>>
  /\ rngs = <<>>
  /\ sunlit = <<>>
  /\ stdin = <<>>
  /\ q = <<>>
  /\ pc = IF script = "phase1" THEN "tle" ELSE "v2_tle"
  /\ InitLoopState

NextCache ==
  \/ FetchCatalog
  \/ V2FetchCatalog
  \/ LoadCatalog

SpecCache == InitCache /\ [][NextCache]_vars

\* The main thread is in the tick loop.
InLoop ==
  pc \in {"top", "terminal", "snapshot", "quit", "udp", "sse", "sse_get",
          "sse_put", "sse_full", "sse_full_put", "sleep"}

\* ---------------------------------------------------------- SpecHostPort
\* Phase 1 from the --web setup to the end of the loop, for every --udp and
\* --web, on a fresh catalog file. cfg.udp and cfg.web say whether the loop
\* will find a socket and a queue: whether the argument is truthy.
InitHostPort ==
  /\ script = "phase1"
  /\ args \in {[DefaultArgs EXCEPT !.udp = u, !.web = w] :
                 u \in HostPortChoices, w \in HostPortChoices}
  /\ cfg \in {[c EXCEPT !.sun_alt_thresh = -18] :
               c \in Config({10}, {FALSE}, {2}, {Truthy(args.udp)},
                            {Truthy(args.web)}, {1})}
  /\ tle_path = ResolveTlePath(args.tle_file)
  /\ tle = File(0, RemoteCatalog)
  /\ net = [NoFetch EXCEPT !.before = tle]
  /\ satellites = <<>>
  /\ prev = <<>>
  /\ exit_code = 0
  /\ sock = NoSocket
  /\ InitExtras
  /\ n = 0
  /\ alts = <<>>
  /\ azs = <<>>
  /\ rngs = <<>>
  /\ sunlit = <<>>
  /\ stdin \in {<<>>, <<LineOther, LinePaddedQ>>}
  /\ q = <<>>
  /\ pc = "web_setup"
  /\ InitLoopState

\* KeyboardInterrupt while the main thread is in the loop.
InterruptInLoop == InLoop /\ Interrupt

NextHostPort ==
  \/ WebSetup
  \/ FetchCatalog
  \/ LoadCatalog
  \/ StructuralFilter
  \/ ApogeeFilter
  \/ MaskFilter
  \/ EnterLoop
  \/ LoopVisibility
  \/ TerminalRender
  \/ TerminalRenderFails
  \/ BuildSnapshot
  \/ QuitCheckNoInput
  \/ QuitCheckQuit
  \/ QuitCheckOther
  \/ UdpSkip
  \/ UdpSendOk
  \/ UdpSendFails
  \/ SseSkip
  \/ SseWhileDone
  \/ SsePut
  \/ Sleep
  \/ InterruptInLoop

SpecHostPort == InitHostPort /\ [][NextHostPort]_vars

\* ===================================================================
\* Properties of the visibility computation (SpecTick)
\* ===================================================================
\* The frame of the running tick has been built.
FrameReady == pc \in {"terminal", "snapshot", "quit", "udp", "sse", "sleep"}

\* The catalog indices of the rows of a frame, in order.
SatsOf(rows) == [k \in 1..Len(rows) |-> rows[k].sat]
InFrame(k) == \E a \in 1..Len(observations) : observations[a].sat = k

Pos(p, k) == CHOOSE a \in 1..Len(p) : p[a] = k
\* Rank of k in the ranked sequence once the failed objects are left out.
RankAmongNonFailing(k) ==
  Cardinality({a \in 1..Pos(ranked, k) : ranked[a] \notin failed})

\* C1: whatever subset of the altaz queries raises in a tick, the tick does
\* not raise, and every object whose query succeeded, that passes the
\* predicate and ranks within maxResults among the objects that did not
\* fail, is a row of the tick's frame.
C1_FailureIsolation ==
  /\ pc # "crashed"
  /\ FrameReady =>
       \A k \in (1..n) \ failed :
         (Mask(k) /\ RankAmongNonFailing(k) <= cfg.maxsat) => InFrame(k)

\* C2: an object whose altaz query failed in a tick is never a row of that
\* tick's frame, whatever --min-el and --visible-only are.
C2_FailedObjectExcluded ==
  FrameReady =>
    /\ \A k \in failed : ~InFrame(k)
    /\ \A a \in 1..Len(termOut.rows) : termOut.rows[a].sat \notin failed
    /\ \A a \in 1..Len(snapshot.rows) : snapshot.rows[a].sat \notin failed

\* C8 (as claimed): the frame never has more rows than the configured
\* --maxsat, also when that is 0 or negative.
C8_RowsAtMostConfiguredMax ==
  FrameReady => Len(observations) <= cfg.maxsat

\* C8 (amended): the frame never has more rows than max(1, --maxsat).
C8_RowsAtMostEffectiveMax ==
  /\ Len(observations) <= Max(1, cfg.maxsat)
  /\ Len(termOut.rows) <= Max(1, cfg.maxsat)
  /\ Len(snapshot.rows) <= Max(1, cfg.maxsat)

\* C8 witness: --maxsat 0, two objects pass, one row is kept.
C8_Witness ==
  /\ FrameReady
  /\ cfg.maxsat = 0
  /\ Len(ranked) = 2
  /\ Len(observations) = 1

\* C9: consecutive rows of a frame have non-increasing elevation.
C9_RowsByNonIncreasingElevation ==
  \A k \in 1..(Len(observations) - 1) :
    observations[k].el >= observations[k + 1].el

\* C9 witness: two rows of different elevation, the later catalog entry
\* first.
C9_Witness ==
  /\ FrameReady
  /\ Len(observations) = 2
  /\ observations[1].el > observations[2].el
  /\ observations[1].sat > observations[2].sat

\* C10: of two objects that pass the predicate with equal elevation, the
\* one earlier in the catalog is earlier in the ranked sequence.
C10_StableRanking ==
  FrameReady =>
    \A a, b \in 1..Len(ranked) :
      (a < b /\ alts[ranked[a]] = alts[ranked[b]]) => ranked[a] < ranked[b]

\* C11: truncation never reorders. The rows are the first
\* min(max(1, --maxsat), number passing) entries of the ranked sequence, in
\* the same order, on every sink's copy, and no dropped object is a row.
C11_TruncationKeepsRankedPrefix ==
  FrameReady =>
    LET keep == Min(Max(1, cfg.maxsat), Len(ranked))
        dropped == {ranked[b] : b \in (keep + 1)..Len(ranked)}
    IN /\ SatsOf(observations) = SubSeq(ranked, 1, keep)
       /\ \A a \in 1..Len(observations) : observations[a].sat \notin dropped
       /\ \A a \in 1..keep, b \in (keep + 1)..Len(ranked) :
            alts[ranked[a]] >= alts[ranked[b]]
       /\ pc \in {"snapshot", "quit", "udp", "sse", "sleep"} =>
            termOut.rows = observations
       /\ pc \in {"quit", "udp", "sse", "sleep"} =>
            snapshot.rows = observations

\* C11 witness: two objects of different elevation pass, --maxsat 1 keeps
\* the higher and drops the lower.
C11_Witness ==
  /\ pc = "sleep"
  /\ cfg.maxsat = 1
  /\ Len(ranked) = 2
  /\ Len(snapshot.rows) = 1
  /\ alts[ranked[1]] > alts[ranked[2]]
  /\ snapshot.rows[1].sat = ranked[1]

\* The predicate of the specification on the values computed for object k.
PassesPredicate(el, lit) ==
  /\ el >= cfg.min_el
  /\ (cfg.visible_only = FALSE \/ (lit /\ sun_alt <= cfg.sun_alt_thresh))

\* C12: with isNight = (sunAltitude <= nightThreshold), the ranked candidates
\* of a tick are exactly the objects with elevation >= minElevation and
\* (visible-only off, or sunlit and isNight); every row satisfies it.
C12_VisibilityPredicate ==
  FrameReady =>
    /\ is_night = (sun_alt <= cfg.sun_alt_thresh)
    /\ {ranked[a] : a \in 1..Len(ranked)} =
         {k \in 1..n : PassesPredicate(alts[k], sunlit[k])}
    /\ \A a \in 1..Len(observations) :
         PassesPredicate(observations[a].el, observations[a].sunlit)
    /\ \A a \in 1..Len(snapshot.rows) :
         PassesPredicate(snapshot.rows[a].el, snapshot.rows[a].sunlit)

\* C12 witness: visible-only mode, the Sun exactly at the threshold, one
\* object exactly at the minimum elevation is kept and one that is high
\* enough but not sunlit is left out.
C12_Witness ==
  /\ pc = "sleep"
  /\ n = 2
  /\ cfg.visible_only
  /\ sun_alt = cfg.sun_alt_thresh
  /\ Len(snapshot.rows) = 1
  /\ snapshot.rows[1].el = cfg.min_el
  /\ \E k \in 1..n : alts[k] >= cfg.min_el /\ ~sunlit[k]

\* C13: every row of every frame has 0 <= az < 360, whatever azimuth the
\* ephemeris collaborator returned and also for a failed object.
C13_AzimuthInHalfOpenCircle ==
  FrameReady =>
    /\ \A a \in 1..Len(observations) :
         0 <= observations[a].az /\ observations[a].az < FULL_CIRCLE_DEG
    /\ \A a \in 1..Len(termOut.rows) :
         0 <= termOut.rows[a].az /\ termOut.rows[a].az < FULL_CIRCLE_DEG
    /\ \A a \in 1..Len(snapshot.rows) :
         0 <= snapshot.rows[a].az /\ snapshot.rows[a].az < FULL_CIRCLE_DEG

\* ===================================================================
\* Properties of the sinks and of the loop's end (SpecLoop)
\* ===================================================================
\* The running tick's frame has reached every enabled sink.
DeliveredToAllSinks ==
  /\ termOut.epoch = tick
  /\ cfg.udp => udpTries >= 1
  /\ cfg.web => enq

\* C5: when sendto raises, the error stays in the datagram step, the send is
\* not tried again in that tick, the frame of the tick is still put on the
\* broadcast queue and the loop goes on to its sleep and to the next tick.
C5_UdpErrorContained ==
  udpErr =>
    /\ pc # "crashed"
    /\ udpTries = 1
    /\ udpOut = NoSnapshot
    /\ (cfg.web /\ pc \in {"sleep", "top"}) => (enq /\ q[Len(q)] = snapshot)
    /\ pc = "stopped" => stopCause = "interrupt"

\* C5 witness: back at the top of the loop after a tick whose send raised
\* and whose frame was broadcast.
C5_Witness ==
  /\ udpErr
  /\ cfg.web
  /\ enq
  /\ pc = "top"
  /\ tick < MaxTick

\* C6: when a 'q' line ends the loop, the frame of that tick has been
\* delivered to every enabled sink.
C6_QuitAfterDispatch ==
  stopCause = "quit" => DeliveredToAllSinks

\* C7: when KeyboardInterrupt ends the loop, the tick in flight has run to
\* completion: its frame has reached all the enabled sinks.
C7_InterruptAfterTick ==
  (stopCause = "interrupt" /\ tick >= 1) => DeliveredToAllSinks

\* C14: a tick in which no object passes the predicate is not skipped. Its
\* frame with no rows is rendered on the terminal as the "no satellites"
\* line and, once the tick is over, has been sent as a datagram and put on
\* the broadcast queue when these sinks are enabled.
C14_EmptyFrameStillDelivered ==
  (tick >= 1 /\ observations = <<>>) =>
    /\ pc \notin {"terminal", "stopped", "crashed"} =>
         termOut = [epoch |-> tick, rows |-> <<>>, line |-> "no satellites"]
    /\ pc \in {"sleep", "top"} =>
         /\ snapshot.type = "snapshot"
         /\ snapshot.epoch_utc = tick
         /\ snapshot.rows = <<>>
         /\ cfg.udp => (udpTries = 1 /\ (~udpErr => udpOut = snapshot))
         /\ cfg.web => (enq /\ q[Len(q)] = snapshot)

\* C24: a console write error raised while the frame is rendered on the
\* terminal is swallowed: the tick is not aborted, the datagram and
\* broadcast sinks get the tick's frame, and the loop continues.
C24_ConsoleErrorSwallowed ==
  termOut.line = "error" =>
    /\ pc # "crashed"
    /\ pc \in {"sleep", "top"} =>
         /\ cfg.udp => udpTries >= 1
         /\ cfg.web => enq

\* The datagram of this tick against the frame put on the broadcast queue
\* in this tick: same type, epoch, Sun altitude and night flag, and rows that
\* are the first rows of the frame, cap of them at most.
DatagramMatchesFrame(cap) ==
  (udpOut # NoSnapshot /\ enq) =>
    LET frame == q[Len(q)]
    IN /\ udpOut.type = frame.type
       /\ udpOut.epoch_utc = frame.epoch_utc
       /\ udpOut.sun_alt = frame.sun_alt
       /\ udpOut.is_night = frame.is_night
       /\ Len(udpOut.rows) <= cap
       /\ Len(udpOut.rows) <= Len(frame.rows)
       /\ udpOut.rows = SubSeq(frame.rows, 1, Len(udpOut.rows))

\* C25: the datagram of a tick has the type, epoch, Sun altitude and night
\* flag of the frame enqueued in that tick, and its rows are a prefix of the
\* frame's rows of at most --udp-snapshot-max rows, whatever the configured
\* value, 0 and negative included.
C25_DatagramIsPrefixWithinConfiguredCap ==
  DatagramMatchesFrame(cfg.udp_snapshot_max)

\* C25 (amended): the prefix has at most max(1, --udp-snapshot-max) rows,
\* and exactly that many when the frame has more.
C25_DatagramIsPrefixWithinEffectiveCap ==
  /\ DatagramMatchesFrame(Max(1, cfg.udp_snapshot_max))
  /\ (udpOut # NoSnapshot /\ enq) =>
       Len(udpOut.rows) =
         Min(Len(q[Len(q)].rows), Max(1, cfg.udp_snapshot_max))

\* C25 witness: a frame of two rows was enqueued and its datagram, with
\* --udp-snapshot-max 0, has the first row.
C25_Witness ==
  /\ udpOut # NoSnapshot
  /\ enq
  /\ cfg.udp_snapshot_max = 0
  /\ Len(q[Len(q)].rows) = 2
  /\ udpOut.rows = <<q[Len(q)].rows[1]>>

\* C14 witness: a tick without observations is over and its empty frame has
\* gone out on both sinks.
C14_Witness ==
  /\ pc = "top"
  /\ tick >= 1
  /\ observations = <<>>
  /\ cfg.udp /\ cfg.web
  /\ udpOut.epoch_utc = tick /\ udpOut.rows = <<>>
  /\ enq

\* ===================================================================
\* Properties of the broadcast queue (SpecQueue)
\* ===================================================================
InBroadcast ==
  pc \in {"sse", "sse_get", "sse_put", "sse_full", "sse_full_put", "v2_sse"}
AfterBroadcast == pc \in {"sleep", "v2_quit"}

\* C3: in both scripts, whatever the queue holds and whatever the consumers
\* do, the producer in its broadcast step can always take its next step
\* without a consumer acting first, the step is over after a bounded number
\* of them, and it ends with the frame enqueued or dropped.
C3_ProducerNeverWaits ==
  /\ InBroadcast => ENABLED BroadcastStep
  /\ sseSteps <= 2 * (QueueMaxSize - EvictAbove) + 4
  /\ (AfterBroadcast /\ ~enq) => (script = "v257" /\ sseSteps = 1)
  /\ Len(q) <= QueueMaxSize

\* C3 witness: v2.5.7 found the queue at capacity, dropped the frame and
\* went on.
C3_Witness ==
  /\ script = "v257"
  /\ pc = "v2_quit"
  /\ ~enq
  /\ Len(q) = QueueMaxSize

StrictlyIncreasing(qq) ==
  \A a \in 1..(Len(qq) - 1) : qq[a].epoch_utc < qq[a + 1].epoch_utc

\* C4: in Phase 1 the queue holds the frames in tick order, and every
\* message a consumer receives is of a later tick than the one it received
\* before: none twice, none after a later one.
C4_FramesInTickOrder ==
  [][script = "phase1" =>
       /\ StrictlyIncreasing(q')
       /\ \A c \in 1..NumConsumers :
            got'[c] # got[c] => got'[c] > got[c]]_vars

\* C4 witness: a consumer has received a frame and the next one waiting for
\* it is not the following tick's: frames in between were evicted.
C4_Witness ==
  /\ script = "phase1"
  /\ got[1] >= 1
  /\ q # <<>>
  /\ Head(q).epoch_utc > got[1] + 1

\* ===================================================================
\* Properties of the filters (SpecFilter)
\* ===================================================================
\* name contains pat, letters compared without regard to case.
ContainsIgnoringCase(name, pat) ==
  \E off \in 0..(Len(name) - Len(pat)) :
    \A j \in 1..Len(pat) : LowerChar(name[off + j]) = LowerChar(pat[j])

\* The rule of the specification on lists of patterns (None has length 0).
ExpectedMatch(name, include, exclude) ==
  /\ ~\E k \in 1..Len(exclude) : ContainsIgnoringCase(name, exclude[k])
  /\ Len(include) > 0 =>
       \E k \in 1..Len(include) : ContainsIgnoringCase(name, include[k])

\* C15: name_matches is false when the name contains an excluded substring
\* whatever include is; else with a non-empty include it is true iff the
\* name contains an included substring; else true. A mask of blank entries
\* counts as absent. include=[GPS], exclude=[GPS-BIIR-2] rejects
\* 'NAVSTAR GPS-BIIR-2'; include=None, exclude=[STARLINK] keeps 'ISS (ZARYA)'.
C15_NameMatches ==
  LET inc == compile_mask_list(args.mask_include)
      exc == compile_mask_list(args.mask_exclude)
  IN /\ \A nm \in NameChoices :
          name_matches(nm, inc, exc) = ExpectedMatch(nm, inc, exc)
     /\ args.mask_include = MaskBlank => inc = None
     /\ ~name_matches(NameGps, <<MaskGps>>, <<MaskGpsBiir>>)
     /\ name_matches(NameIss, None, <<MaskStarlink>>)
     /\ pc = "alloc" =>
          satellites =
            SelectSeq(prev, LAMBDA s : ExpectedMatch(s.name, inc, exc))

\* C15 witness: include "gps,iss" in lower case, exclude GPS-BIIR-2; of the
\* GPS object and the ISS only the ISS is left.
C15_Witness ==
  /\ pc = "alloc"
  /\ args.mask_include = MaskGpsIssLower
  /\ args.mask_exclude = MaskGpsBiir
  /\ Len(prev) = 2
  /\ prev[1].name = NameGps
  /\ Len(satellites) = 1
  /\ satellites[1].name = NameIss

\* The rule of the specification on elements that can be read.
ExpectedValid(sat, maxApogee) ==
  /\ 0 <= sat.model.ecco /\ sat.model.ecco < 1000
  /\ sat.model.a_km > 0
  /\ sat.model.a_km * (1000 + sat.model.ecco) <=
       (maxApogee + 6371) * 1000

\* C16: validate_orbital_elements keeps an entry iff 0 <= e < 1, a > 0 and
\* a * (1 + e) - 6371 <= maxApogee, the bound included; its result depends
\* on its arguments only; a = 6921 km, e = 0 is rejected for 500 and kept
\* for 600.
C16_ValidateOrbitalElements ==
  /\ \A el \in ElementChoices, mx \in MaxApogeeChoices :
       validate_orbital_elements(Sat(NameIss, el), mx) =
         (el.attrs = "ok" /\ ExpectedValid(Sat(NameIss, el), mx))
  /\ ~validate_orbital_elements(Sat(NameIss, Elements("ok", 6921, 0)), 500)
  /\ validate_orbital_elements(Sat(NameIss, Elements("ok", 6921, 0)), 600)
  /\ pc = "mask" =>
       satellites =
         SelectSeq(prev, LAMBDA s : /\ s.model.attrs = "ok"
                                    /\ ExpectedValid(s, args.max_apogee))

\* C16 witness: bound 600; an object whose apogee is exactly 600 km is kept
\* and one of eccentricity 1 with a low apogee is dropped.
C16_Witness ==
  /\ pc = "mask"
  /\ args.max_apogee = 600
  /\ Len(prev) = 2
  /\ prev[1].model = Elements("ok", 3000, 1000)
  /\ satellites = <<prev[2]>>
  /\ prev[2].model = Elements("ok", 6971, 0)

\* ===================================================================
\* Properties of the startup (SpecStartup)
\* ===================================================================
\* No tick has started and no sink has received anything.
NothingDelivered ==
  /\ tick = 0
  /\ termOut = NoFrame
  /\ udpTries = 0
  /\ ~enq
  /\ \A k \in 1..Len(q) : q[k].type # "snapshot"

\* C17: in Phase 1, once a filter stage has left the catalog empty the
\* process has exited with a non-zero status, no tick has started and no
\* frame has reached a sink; the loop only runs with a non-empty catalog.
C17_EmptyCatalogIsFatal ==
  script = "phase1" =>
    /\ (satellites = <<>> /\
        pc \notin {"start", "web_setup", "tle", "load", "structural"}) =>
         (pc = "exited" /\ exit_code # 0 /\ NothingDelivered)
    /\ tick >= 1 => (satellites # <<>> /\ n = Len(satellites))

\* C17 witness: the name filter dropped the only object and the process
\* exited with status 1.
C17_Witness ==
  /\ script = "phase1"
  /\ pc = "exited"
  /\ exit_code = 1
  /\ satellites = <<>>
  /\ Len(prev) = 1
  /\ prev[1].kind = "sat"
  /\ validate_orbital_elements(prev[1], args.max_apogee)
  /\ args.mask_exclude = MaskStarlink

\* --twilight custom with no value or with a value >= 0.
BadCustomTwilight ==
  /\ args.twilight = "custom"
  /\ (args.twilight_deg = None \/ args.twilight_deg[1] >= 0)

\* C18: in both scripts a custom twilight with a missing or non-negative
\* value exits with a non-zero status before any fetch and any tick;
\* otherwise the threshold is the custom value, or -6, -12, -18 for civil,
\* nautical, astronomical.
C18_TwilightThreshold ==
  pc # "start" =>
    IF BadCustomTwilight
      THEN /\ pc = "exited"
           /\ exit_code # 0
           /\ net.fetches = 0
           /\ tle = net.before
           /\ NothingDelivered
      ELSE cfg.sun_alt_thresh =
             CASE args.twilight = "civil" -> -6
               [] args.twilight = "nautical" -> -12
               [] args.twilight = "astronomical" -> -18
               [] args.twilight = "custom" -> args.twilight_deg[1]

\* C18 witness: v2.5.7 with --twilight custom --twilight-deg 5 has exited
\* with status 2.
C18_Witness ==
  /\ script = "v257"
  /\ args.twilight = "custom"
  /\ args.twilight_deg = <<5>>
  /\ pc = "exited"
  /\ exit_code = 2

\* The startup has gone through the staleness check of the catalog file.
PastFetch ==
  /\ pc \notin {"start", "web_setup", "tle"}
  /\ pc = "exited" => (exit_code = 1 \/ satellites # <<>>)

\* C19: in Phase 1 a fetch is attempted iff the catalog file was missing or
\* older than --refresh-hrs; a file no older than that is neither fetched
\* nor written.
C19_FetchIffStale ==
  script = "phase1" =>
    LET f == net.before
        stale == f.exists => f.age_s - args.refresh_hrs * 3600 > 0
    IN /\ ~PastFetch => (net.fetches = 0 /\ tle = f)
       /\ PastFetch => (net.fetches = 1 <=> stale)
       /\ ~stale => (net.fetches = 0 /\ net.writes = 0 /\ tle = f)

\* C19 witness: a file exactly --refresh-hrs old was not fetched and the
\* loop runs on it.
C19_Witness ==
  /\ script = "phase1"
  /\ net.before.exists
  /\ net.before.age_s = args.refresh_hrs * 3600
  /\ net.fetches = 0
  /\ tick >= 1

\* C20: in Phase 1, when the fetch fails, the startup goes on to load the
\* file that was there, untouched; with no file it exits with a non-zero
\* status, and no tick has started.
C20_FetchFailure ==
  [][(script = "phase1" /\ pc = "tle" /\ net'.outcome = "fetch_fails") =>
       IF tle.exists
         THEN pc' = "load" /\ tle' = tle /\ exit_code' = 0
         ELSE pc' = "exited" /\ exit_code' # 0 /\ tick' = 0]_vars

\* C20 witness: the fetch failed, the stale file was loaded and the loop
\* runs.
C20_Witness ==
  /\ script = "phase1"
  /\ net.outcome = "fetch_fails"
  /\ net.before.exists
  /\ tle = net.before
  /\ satellites # <<>>
  /\ tick >= 1

\* ------------------------------------------------ properties: SpecCache
\* How many of the directories above the last component of a path are the
\* cache root.
CacheRootCount(p) ==
  Cardinality({k \in 1..(Len(p.parts) - 1) : p.parts[k] = CACHE_DIR.parts[1]})

\* The catalog path has been resolved.
PathResolved == tle_path # NoPath

\* C21: in Phase 1 the resolved catalog path has the cache root directory
\* exactly once for a relative --tle-file, also for one that itself starts
\* with the cache root, and is the supplied path for an absolute one.
C21_CacheRootOncePhase1 ==
  (script = "phase1" /\ PathResolved) =>
    IF is_absolute(Path(args.tle_file))
      THEN tle_path = Path(args.tle_file)
      ELSE CacheRootCount(tle_path) = 1

\* C22: in v2.5.7 the path of the staleness check and download has the
\* cache root directory exactly once for every relative --tle-file, and is
\* the supplied path for an absolute one.
C22_CacheRootOnceV2 ==
  (script = "v257" /\ PathResolved) =>
    IF is_absolute(Path(args.tle_file))
      THEN tle_path = Path(args.tle_file)
      ELSE /\ CacheRootCount(tle_path) = 1
           /\ Head(tle_path.parts) = CACHE_DIR.parts[1]
           /\ ~tle_path.root

\* A relative path that starts with the cache root was given to v2.5.7 and
\* the catalog was fetched to the resolved path.
C22_Witness ==
  /\ script = "v257"
  /\ pc = "load"
  /\ args.tle_file = TleFileInCache
  /\ tle_path = PurePath(FALSE, <<CacheDirName, PathName(Path(TleFileBare))>>)
  /\ net.fetches = 1

\* ----------------------------------------------- properties: SpecV2Tick
V2FrameReady == pc \in {"v2_udp", "v2_sse", "v2_quit"}

\* C23: in v2.5.7, when the altaz query of an object raises in a tick, the
\* tick is not aborted and the loop goes on, and the tick's frame has the
\* other objects that pass the predicate and rank within maxsat.
C23_V2FailureIsolation ==
  (script = "v257" /\ failed # {}) =>
    /\ pc # "crashed"
    /\ V2FrameReady =>
         \A k \in (1..n) \ failed :
           (Mask(k) /\ RankAmongNonFailing(k) <= maxsat) => InFrame(k)

\* ------------------------------------------------ properties: SpecFrame
\* The dict id holds what its tick set out to put into it.
Complete(id) == Dumps(heap, id) = heap[id].built

\* C26: a frame is complete before the datagram or the broadcast sink sees
\* it and is not modified afterwards: the datagram is cut from the complete
\* frame, building it leaves the frame's rows alone, and every frame on the
\* broadcast queue stays as it was built, through all later ticks.
C26_FrameImmutable ==
  /\ pc \in {"quit", "udp", "sse", "sse_put", "sleep"} => Complete(snapshot)
  /\ \A k \in 1..Len(q) :
       heap[q[k]].type = "snapshot" => Complete(q[k])
  /\ udpOut # NoSnapshot =>
       /\ Complete(snapshot)
       /\ udpOut =
            [heap[snapshot].built EXCEPT
               !.rows = SubSeq(@, 1, Min(Len(@), Max(1, cfg.udp_snapshot_max)))]

\* C26 witness: two frames of two rows each are on the queue behind the
\* heartbeat, and a datagram of one row was cut from each of them.
C26_Witness ==
  /\ tick = 2
  /\ pc = "sleep"
  /\ Len(q) = 3
  /\ Len(heap[heap[q[2]].rows].items) = 2
  /\ Len(heap[heap[q[3]].rows].items) = 2
  /\ heap[q[2]].epoch_utc = 1
  /\ Len(udpOut.rows) = 1
  /\ Len(heap) = 9

\* ---------------------------------------------- properties: the catalog
\* C27: no step of the tick loop of Phase 1 adds, removes, reorders or
\* replaces a tracked object: the catalog and its length stay as the startup
\* filtering left them, so they are the same at the start of every tick.
C27_CatalogFixedInLoop ==
  [][(script = "phase1" /\ InLoop) =>
       (satellites' = satellites /\ n' = n /\ n = Len(satellites))]_vars

\* C27 witness: the second tick starts on a catalog of one object that the
\* filters kept out of the two in the file.
C27_Witness ==
  /\ script = "phase1"
  /\ pc = "terminal"
  /\ tick = 2
  /\ Len(tle.content) = 2
  /\ Len(satellites) = 1
  /\ n = 1

\* --------------------------------------------- properties: SpecHostPort
\* The process is over: the loop was left, or main() exited or raised.
Over == pc \in {"stopped", "crashed", "exited"}

Malformed(text) ==
  LET colons == {k \in 1..Len(text) : text[k] = ":"}
  IN \/ Cardinality(colons) # 1
     \/ LET at == CHOOSE k \in colons : TRUE
            port == IntOf(SubSeq(text, at + 1, Len(text)))
        IN port = <<>> \/ port[1] < 1 \/ port[1] > 65535

\* C29: with a malformed --udp or --web, Phase 1 never enters the loop: no
\* tick starts, no frame reaches a sink, and where the process ends it has
\* exited with a non-zero status.
C29_MalformedHostPortIsFatal ==
  (\/ (args.udp # None /\ Malformed(args.udp[1]))
   \/ (args.web # None /\ Malformed(args.web[1]))) =>
    /\ ~InLoop
    /\ pc \notin {"stopped", "crashed"}
    /\ pc = "exited" => exit_code # 0
    /\ NothingDelivered

\* --------------------------------------------- properties: SpecSchedule
\* C30: the elapsed time that the sleep uses is taken when the computation
\* and the dispatch to the terminal, datagram and broadcast sinks of the
\* tick are over; the loop sleeps interval - elapsed when that is positive
\* and not at all otherwise; every pass of the loop is one tick.
C30_SleepAfterDispatch ==
  /\ pc = "delay" =>
       /\ clock.dispatched >= 0
       /\ clock.elapsed = clock.dispatched - clock.loop_start
  /\ (pc = "top" /\ tick >= 1) =>
       /\ clock.slept = Max(0, args.interval - clock.elapsed)
       /\ clock.now = clock.dispatched + clock.slept
  /\ pc = "top" => clock.sleeps = tick

\* ------------------------------------------------- properties: SpecQuit
\* The lines standard input still holds for the program, in order: those
\* sys.stdin has read ahead, then those on the descriptor.
Pending == stdin_buf \o Waiting
IsQuitLine(l) == Lower(Strip(l)) = <<"q">>
QuitPending == \E k \in 1..Len(Pending) : IsQuitLine(Pending[k])

\* C31: the quit check never waits and takes at most one line per tick;
\* the loop stops on a line that is "q" once trimmed and lower-cased and on
\* no other line; and once such a line is pending behind any number of
\* other lines, the loop reaches STOPPED.
C31_QuitLineStopsLoop ==
  /\ [][/\ Len(Pending) - 1 <= Len(Pending') /\ Len(Pending') <= Len(Pending)
        /\ Pending' # Pending => pc = "quit" /\ Pending' = Tail(Pending)
        /\ pc' = "stopped" =>
             pc = "quit" /\ Pending # <<>> /\ IsQuitLine(Head(Pending))
        /\ (pc = "quit" /\ Pending' # Pending /\ ~IsQuitLine(Head(Pending)))
             => pc' = "udp"]_vars
  /\ QuitPending ~> (pc = "stopped")

\* ------------------------------------------------ properties: SpecQueue
\* C32: in Phase 1, with one producer and the consumers taking messages at
\* any moment, the queue never holds more than 101 items, so it never
\* reaches its capacity of 128: the put of the current frame succeeds and
\* the handler of queue.Full is never entered.
C32_QueueBelowCapacity ==
  script = "phase1" =>
    /\ Len(q) <= 101
    /\ Len(q) < QueueMaxSize
    /\ pc \notin {"sse_full", "sse_full_put"}
    /\ pc = "sleep" => enq

\* C32 witness: a broadcast step found 101 items, evicted the oldest and
\* left 101 with the current frame last.
C32_Witness ==
  /\ script = "phase1"
  /\ pc = "sleep"
  /\ tick > EvictAbove
  /\ Len(q) = 101
  /\ q[1] # Heartbeat
  /\ q[Len(q)] = snapshot

\* The queued messages are of consecutive ticks (the heartbeat counts as
\* tick 0; every tick of SpecQueue enqueues its frame).
Contiguous(qq) ==
  \A a \in 1..(Len(qq) - 1) : qq[a + 1].epoch_utc = qq[a].epoch_utc + 1

\* C33: in Phase 1 a message leaves the queue only from its head, so the
\* queued frames are always consecutive in enqueue order, and the step
\* that ends the producer's broadcast step leaves the current tick's frame
\* at the tail.
C33_QueueContiguous ==
  [][script = "phase1" =>
       /\ Contiguous(q')
       /\ q' # q =>
            ((q # <<>> /\ q' = Tail(q)) \/ q' = Append(q, snapshot))
       /\ (pc # "sleep" /\ pc' = "sleep") =>
            (q' # <<>> /\ q'[Len(q')] = snapshot' /\ snapshot' = Frame(tick'))
     ]_vars

\* C33 witness: the producer has evicted, a consumer has taken frames, and
\* several frames are queued behind one another.
C33_Witness ==
  /\ script = "phase1"
  /\ pc = "sleep"
  /\ tick > EvictAbove + 1
  /\ got[1] > 1
  /\ Len(q) >= 3
  /\ q[Len(q)] = snapshot

\* ---------------------------------------------- properties: SpecClients
\* C34: in both scripts the clients share one queue. A client that
\* receives a message takes the head of the queue and removes it; the
\* message is of a later tick than every message any client has received,
\* and it is in the queue no more: no other client has observed it or will.
C34_FrameSeenByOneClient ==
  [][\A c \in DOMAIN got :
       got'[c] # got[c] =>
         /\ q # <<>>
         /\ got'[c] = Head(q).epoch_utc
         /\ q' = Tail(q)
         /\ \A d \in DOMAIN got \ {c} : got'[d] = got[d] /\ got[d] < got'[c]
         /\ \A k \in 1..Len(q') : q'[k].epoch_utc > got'[c]]_vars

\* C34 witness: two clients are connected, every frame of the run has been
\* taken, and each client has missed the frame the other received last.
C34_Witness ==
  /\ Cardinality(DOMAIN got) >= 2
  /\ tick = ClientTicks
  /\ AfterBroadcast
  /\ q = <<>>
  /\ got[1] >= 1
  /\ got[2] >= 1
  /\ got[1] # got[2]

\* ------------------------------------- properties: SpecTick, the arrays
\* The row of object k as this tick's queries determine it: the computed
\* values with the azimuth normalised and the sunlit flag true unless the
\* query returned false, or the sentinels of a failed position query.
RowOfThisTick(k) ==
  IF queried[k].altaz = "ok"
    THEN [sat |-> k, az |-> FloatMod(queried[k].r.az, FULL_CIRCLE_DEG),
          el |-> queried[k].r.el, range_km |-> queried[k].r.km,
          sunlit |-> (queried[k].lit # "false")]
    ELSE [sat |-> k, az |-> 0, el |-> SentinelAlt, range_km |-> 0,
          sunlit |-> FALSE]

\* C35: in Phase 1 an object whose position query succeeded and whose
\* sunlit query raised keeps its computed azimuth, elevation and range and
\* counts as sunlit: in visible-only mode at night it passes the predicate
\* exactly if its elevation is at least the minimum.
C35_SunlitFailureCountsAsSunlit ==
  FrameReady =>
    \A k \in 1..n :
      queried[k].lit = "raises" =>
        /\ alts[k] = queried[k].r.el
        /\ azs[k] = FloatMod(queried[k].r.az, FULL_CIRCLE_DEG)
        /\ rngs[k] = queried[k].r.km
        /\ sunlit[k] = TRUE
        /\ (cfg.visible_only /\ is_night) =>
             ((\E a \in 1..Len(ranked) : ranked[a] = k)
                <=> queried[k].r.el >= cfg.min_el)
        /\ \A a \in 1..Len(observations) :
             observations[a].sat = k => observations[a].sunlit = TRUE

\* C35 witness: visible-only mode at night, and the frame has the row of
\* an object whose sunlit query raised, marked sunlit.
C35_Witness ==
  /\ pc = "sleep"
  /\ cfg.visible_only
  /\ is_night
  /\ \E a \in 1..Len(snapshot.rows) :
       /\ queried[snapshot.rows[a].sat].lit = "raises"
       /\ snapshot.rows[a].sunlit = TRUE
       /\ snapshot.rows[a].el >= cfg.min_el

\* C37: in Phase 1 the arrays are allocated once and every entry is
\* written in every tick before the predicate is evaluated: each row of a
\* frame carries what this tick's queries of its object gave, computed
\* values or sentinels, never a value of an earlier tick.
C37_NoStaleArrayEntry ==
  FrameReady =>
    /\ Len(queried) = n
    /\ \A k \in 1..n : Row(k) = RowOfThisTick(k)
    /\ \A a \in 1..Len(observations) :
         observations[a] = RowOfThisTick(observations[a].sat)
    /\ \A a \in 1..Len(snapshot.rows) :
         snapshot.rows[a] = RowOfThisTick(snapshot.rows[a].sat)

\* C37 witness: in the second tick the frame has the sentinel row of an
\* object whose position query raised, next to a computed row.
C37_Witness ==
  /\ pc = "sleep"
  /\ tick = 2
  /\ Len(snapshot.rows) = 2
  /\ \E a, b \in 1..2 :
       /\ queried[snapshot.rows[a].sat].altaz = "raises"
       /\ snapshot.rows[a].el = SentinelAlt
       /\ queried[snapshot.rows[b].sat].altaz = "ok"

\* -------------------------------------- properties: SpecCache, the fetch
\* The request of the latest fetch did not deliver the text.
FetchFailed(nt) ==
  nt.attempt.response.error \in {"connection", "timeout"}
    \/ nt.attempt.response.status >= 400

\* C36: in both scripts download_tle writes the cache file only after the
\* fetch has succeeded: when the request ends in a connection error, a
\* timeout or an HTTP error status, an existing file keeps its content and
\* its modification time and a missing file stays missing.
C36_WriteOnlyAfterFetch ==
  [][/\ (net'.fetches = net.fetches + 1 /\ FetchFailed(net')) =>
          (tle' = tle /\ net'.writes = net.writes)
     /\ tle' # tle =>
          (net'.fetches = net.fetches + 1 /\ ~FetchFailed(net')
             /\ net'.attempt.response.status = 200)]_vars

\* C36 witness: v2.5.7 met an HTTP error status with a stale file in
\* place, and the file is as it was.
C36_Witness ==
  /\ script = "v257"
  /\ net.fetches = 1
  /\ net.attempt.response.status = 503
  /\ net.before.exists
  /\ net.before.age_s > 0
  /\ tle = net.before

\* --------------------------------------------- properties: SpecSnapshot
\* C38: in Phase 1, when the snapshot of a tick fails to build, the
\* terminal has rendered the tick's rows, no datagram is sent and nothing
\* is enqueued for the tick, and the loop is at its top again without a
\* quit check and without a sleep; from there the next tick starts.
C38_FailedSnapshotSkipsDispatch ==
  [][/\ (pc = "snapshot" /\ pc' # "stopped" /\ built' = "failed") =>
          /\ pc' = "top"
          /\ termOut.epoch = tick /\ termOut.rows = observations
          /\ udpTries = 0 /\ udpOut = NoSnapshot /\ ~enq
          /\ \A k \in 1..Len(q) : q[k].epoch_utc # tick
          /\ UNCHANGED <<tick, termOut, udpOut, udpTries, q, enq, stdin,
                         stdin_buf, stopCause>>
     /\ (pc = "top" /\ pc' # "top") =>
          (pc' = "stopped" \/ (pc' = "terminal" /\ tick' = tick + 1))
    ]_vars

\* C38 witness: with both sinks on and a quit line waiting, the tick that
\* rendered rows failed to build its snapshot, and the loop is at its top
\* with nothing sent, nothing enqueued and the line unread.
C38_Witness ==
  /\ pc = "top"
  /\ tick = 1
  /\ built = "failed"
  /\ cfg.udp /\ cfg.web
  /\ termOut.epoch = tick
  /\ termOut.rows # <<>>
  /\ udpTries = 0
  /\ q = <<Heartbeat>>
  /\ stdin = <<LineQ>>

====
